---------------------------- MODULE Spec2Model ----------------------------
(***************************************************************************)
(* Navigation backend: the PostGIS-backed entity tables (speed cameras,    *)
(* road speed limits, hazards, hazardous road segments, school and         *)
(* hospital zones, user reports), the FastAPI handlers of backend/main.py, *)
(* the query functions of database/queries.py and the bulk-import scripts  *)
(* of database/import_data.py and database/import_zones.py.                *)
(*                                                                         *)
(* Geometry is one-dimensional: a location is a number of metres along a   *)
(* road, ST_Distance is the absolute difference and a linestring is the    *)
(* interval its vertices span.                                             *)
(* confidence_score is a Numeric(3,2) column: stored values are counted in *)
(* hundredths (0.80 is 80); values handed to the code are floats and are   *)
(* counted in thousandths (0.80 is 800) until the column rounds them.      *)
(***************************************************************************)
EXTENDS Integers, Sequences, FiniteSets, TLC

VARIABLES
    cameras,     \* table speed_cameras, committed rows in insertion order
    limits,      \* table road_speed_limits
    hazards,     \* table hazard_detections
    roads,       \* table hazardous_road_segments
    schools,     \* table school_zones
    hospitals,   \* table hospital_zones
    reports,     \* table hazard_reports
    nextId,      \* the next primary key (uuid4 never repeats)
    now,         \* the database clock, func.now()
    resp,        \* the response of the last request served
    sess,        \* the import workers: position in the file, pending rows
    run          \* the re-import scenario: what is imported, how often

vars == <<cameras, limits, hazards, roads, schools, hospitals, reports,
          nextId, now, resp, sess, run>>

tables == <<cameras, limits, hazards, roads, schools, hospitals, reports>>

(***************************************************************************)
(* Bounds of the model.                                                    *)
(***************************************************************************)
MaxId == 3          \* rows ever inserted in one behaviour
MaxTime == 1        \* the clock runs 0..MaxTime
MaxRows == 2        \* rows of a table a query is run against
MaxCreated == 2     \* rows created one by one where confidences vary
MaxFileLen == 2     \* records in an import file

Users == {"u1", "u2"}
NoUser == "none"    \* reported_by IS NULL
Positions == {0, 8, 30}
NoTime == -1        \* expires_at IS NULL
MalformedId == 0    \* a camera_id that UUID() does not parse

(***************************************************************************)
(* Program constants.                                                      *)
(***************************************************************************)
DedupTolerance == 10            \* metres
UserCameraConfidence == 500     \* 0.50, thousandths
ImportCameraConfidence == 800   \* 0.80
ImportLimitConfidence == 850    \* 0.85
DefaultLimit == 50

(***************************************************************************)
(* Geometry: PostGIS on geography values, in metres.                       *)
(***************************************************************************)
Abs(n) == IF n >= 0 THEN n ELSE -n
Min(a, b) == IF a <= b THEN a ELSE b
Max(a, b) == IF a >= b THEN a ELSE b
Range(f) == {f[i] : i \in DOMAIN f}

\* ST_Distance(point, point)
ST_Distance(a, b) == Abs(a - b)

\* ST_Distance(linestring, point): 0 on the line, else to the nearer end
ST_DistanceLine(seg, p) ==
    LET lo == CHOOSE x \in Range(seg) : \A y \in Range(seg) : x <= y
        hi == CHOOSE x \in Range(seg) : \A y \in Range(seg) : x >= y
    IN  IF p < lo THEN lo - p ELSE IF p > hi THEN p - hi ELSE 0

\* the radius taken in degrees of arc, as ST_DWithin does on geometry values
ST_DWithin_degrees(a, b, radius) == ST_Distance(a, b) <= radius * 111320

\* ST_DWithin(a, b, radius) on points
ST_DWithin(a, b, radius) == ST_Distance(a, b) <= radius

\* ST_DWithin(linestring, point, radius)
ST_DWithinLine(seg, p, radius) == ST_DistanceLine(seg, p) <= radius

(***************************************************************************)
(* Columns.                                                                *)
(***************************************************************************)
\* Numeric(3, 2): a float (thousandths) is rounded to two decimals, half
\* away from zero.
Numeric_3_2(milli) ==
    IF milli >= 0 THEN (milli + 5) \div 10 ELSE -((5 - milli) \div 10)

\* CheckConstraint("confidence_score >= 0 AND confidence_score <= 1")
confidence_check(row) == row.conf >= 0 /\ row.conf <= 100

NoDirection == -1   \* direction_degrees IS NULL

\* SpeedCamera(...): verified and verification_count take their column
\* defaults unless given.  speed_limit_kmh, camera_type and
\* direction_degrees are plain columns: the table has no constraint on them.
SpeedCamera(id, pos, speed_limit_kmh, camera_type, direction_degrees, confMilli, verified, vcount, by) ==
    [id |-> id, pos |-> pos, speed |-> speed_limit_kmh,
     camera_type |-> camera_type, direction |-> direction_degrees,
     conf |-> Numeric_3_2(confMilli),
     verified |-> verified, vcount |-> vcount, by |-> by]

HazardReport(id, user, pos, report_type, reason) ==
    [id |-> id, user |-> user, pos |-> pos, report_type |-> report_type,
     reason |-> reason]

\* index of the row with primary key id, 0 when there is none
IndexOfId(table, id) ==
    IF \E i \in DOMAIN table : table[i].id = id
    THEN CHOOSE i \in DOMAIN table : table[i].id = id
    ELSE 0

RemoveAt(s, i) == SubSeq(s, 1, i - 1) \o SubSeq(s, i + 1, Len(s))

(***************************************************************************)
(* queries.py: the nearby queries.                                         *)
(***************************************************************************)
\* .order_by(distance_col): rows carry their distance column; equal
\* distances keep the order of the scan (one of the orders the statement
\* admits: order_by_outcomes below has all of them)
RECURSIVE by_distance(_, _)
by_distance(s, distances) ==
    IF distances = {} THEN <<>>
    ELSE LET d == CHOOSE x \in distances : \A y \in distances : x <= y
         IN  SelectSeq(s, LAMBDA r : r.distance = d)
             \o by_distance(s, distances \ {d})

order_by(s) == by_distance(s, {s[i].distance : i \in DOMAIN s})

\* .limit(n)
limit_rows(s, n) == SubSeq(s, 1, Min(n, Len(s)))

\* [row[0] for row in result.all()]
first_column(s) == [i \in DOMAIN s |-> s[i].row]

\* a query without the confidence clause
no_confidence_filter(row, min_confidence) == TRUE

\* if min_confidence > 0: query.where(confidence_score >= min_confidence)
min_confidence_filter(row, min_confidence) ==
    min_confidence > 0 => row.conf * 10 >= min_confidence

\* if verified_only: query.where(verified == True)
verified_filter(row, verified_only) == verified_only => row.verified

camera_where(c, point, radius_meters, min_confidence, verified_only) ==
    /\ ST_DWithin(c.pos, point, radius_meters)
    /\ min_confidence_filter(c, min_confidence)
    /\ verified_filter(c, verified_only)

get_nearby_speed_cameras(table, point, radius_meters, min_confidence, verified_only, limit) ==
    LET Keep(c) == camera_where(c, point, radius_meters, min_confidence,
                                verified_only)
        hit == SelectSeq(table, Keep)
        withDistance == [i \in DOMAIN hit |->
            [row |-> hit[i], distance |-> ST_Distance(hit[i].pos, point)]]
    IN  first_column(limit_rows(order_by(withDistance), limit))

(***************************************************************************)
(* queries.py: create functions (db.add, flush, refresh).  The flush is    *)
(* the INSERT, where the table's check constraint is evaluated.            *)
(***************************************************************************)
\* a create function that drops the reporter
create_speed_camera_unattributed(id, pos, speed_limit_kmh, camera_type, direction_degrees, confMilli, by) ==
    SpeedCamera(id, pos, speed_limit_kmh, camera_type, direction_degrees,
                confMilli, FALSE, 0, NoUser)

create_speed_camera(id, pos, speed_limit_kmh, camera_type, direction_degrees, confMilli, by) ==
    SpeedCamera(id, pos, speed_limit_kmh, camera_type, direction_degrees,
                confMilli, FALSE, 0, by)

create_hazard_report(id, user, pos, report_type, reason) ==
    HazardReport(id, user, pos, report_type, reason)

(***************************************************************************)
(* main.py: the request handlers, one request per step.  get_db commits    *)
(* after the handler returns and rolls back when it raises.                *)
(***************************************************************************)
NoRequest == [point |-> 0]

Response(op, status, id, rows) ==
    [op |-> op, status |-> status, id |-> id, rows |-> rows,
     req |-> NoRequest]

NoResponse == Response("none", 0, 0, <<>>)

\* class CreateCameraRequest(BaseModel): typed says whether the body has
\* the declared types (float, int, str, Optional[int]); the model declares
\* no Field constraint
CreateCameraRequest(pos, speed_limit_kmh, camera_type, direction_degrees, typed) ==
    [pos |-> pos, speed_limit_kmh |-> speed_limit_kmh,
     camera_type |-> camera_type, direction_degrees |-> direction_degrees,
     typed |-> typed]

\* example_usage.py, class CreateSpeedCameraRequest: the same body with a
\* Field constraint on every field
field_constraints(request) ==
    /\ request.speed_limit_kmh > 0 /\ request.speed_limit_kmh <= 200
    /\ request.camera_type \in {"fixed", "mobile", "average_speed"}
    /\ request.direction_degrees # NoDirection
          => request.direction_degrees >= 0 /\ request.direction_degrees <= 360

\* pydantic validation of the body against CreateCameraRequest
validate_request(request) == request.typed

\* POST /api/cameras with a request body
post_camera(u, request) ==
    LET camera == create_speed_camera(nextId, request.pos,
                      request.speed_limit_kmh, request.camera_type,
                      request.direction_degrees, UserCameraConfidence, u)
    IN  /\ nextId <= MaxId
        /\ IF ~validate_request(request)
           THEN /\ UNCHANGED <<cameras, nextId>>
                /\ resp' = Response("create_camera", 422, 0, <<>>)
           ELSE IF confidence_check(camera)
           THEN /\ cameras' = Append(cameras, camera)
                /\ nextId' = nextId + 1
                /\ resp' = Response("create_camera", 201, camera.id, <<camera>>)
           ELSE /\ UNCHANGED <<cameras, nextId>>
                /\ resp' = Response("create_camera", 500, 0, <<>>)
        /\ UNCHANGED <<limits, hazards, roads, schools, hospitals, reports,
                       now, sess, run>>

\* POST /api/cameras with a well-formed body: a 60 km/h fixed camera
create_camera(u, pos) ==
    post_camera(u, CreateCameraRequest(pos, 60, "fixed", NoDirection, TRUE))

\* camera.reported_by != current_user.id
\* a handler without the ownership test
anyone_may_delete(camera, u) == FALSE

\* if camera.reported_by != current_user.id: raise HTTPException(403)
\* a comparison in which NULL is unequal to nothing
not_reporter_unless_null(camera, u) == camera.by # NoUser /\ camera.by # u

not_reporter(camera, u) == camera.by # u

\* DELETE /api/cameras/{camera_id}
delete_camera(u, camera_id) ==
    LET i == IndexOfId(cameras, camera_id)
        status == IF camera_id = MalformedId THEN 400
                  ELSE IF i = 0 THEN 404
                  ELSE IF not_reporter(cameras[i], u) THEN 403
                  ELSE 204
    IN  /\ cameras' = IF status = 204 THEN RemoveAt(cameras, i) ELSE cameras
        /\ resp' = Response("delete_camera", status, camera_id, <<>>)
        /\ UNCHANGED <<limits, hazards, roads, schools, hospitals, reports,
                       nextId, now, sess, run>>

ReportTypes == {"camera_zone"}
Reasons == {"removed"}
ReportPositions == {0, 30}

\* POST /api/reports
\* a handler that answers a repeated report without storing it
report_hazard_once(u, pos, report_type, reason) ==
    LET report == create_hazard_report(nextId, u, pos, report_type, reason)
        repeated == \E i \in DOMAIN reports :
                       [reports[i] EXCEPT !.id = nextId] = report
    IN  /\ nextId <= MaxId
        /\ reports' = IF repeated THEN reports ELSE Append(reports, report)
        /\ nextId' = nextId + 1
        /\ resp' = Response("report_hazard", 201, report.id, <<>>)
        /\ UNCHANGED <<cameras, limits, hazards, roads, schools, hospitals,
                       now, sess, run>>

report_hazard(u, pos, report_type, reason) ==
    LET report == create_hazard_report(nextId, u, pos, report_type, reason)
    IN  /\ nextId <= MaxId
        /\ reports' = Append(reports, report)
        /\ nextId' = nextId + 1
        /\ resp' = Response("report_hazard", 201, report.id, <<>>)
        /\ UNCHANGED <<cameras, limits, hazards, roads, schools, hospitals,
                       now, sess, run>>

QueryPoints == {0, 10}
Radii == {5, 25}
MinConfidences == {0, 504, 850}
Limits == {1, DefaultLimit}

\* GET /api/cameras/nearby
CameraRadiusCeiling == 100000

\* Query(default, gt=0, le=ceiling): anything else is answered with 422
valid_radius(radius_meters, ceiling) ==
    radius_meters > 0 /\ radius_meters <= ceiling

get_cameras_nearby(point, radius_meters, min_confidence, verified_only, limit) ==
    /\ resp' = IF valid_radius(radius_meters, CameraRadiusCeiling)
               THEN Response("get_cameras_nearby", 200, 0,
                        get_nearby_speed_cameras(cameras, point,
                            radius_meters, min_confidence, verified_only,
                            limit))
               ELSE Response("get_cameras_nearby", 422, 0, <<>>)
    /\ UNCHANGED <<tables, nextId, now, sess, run>>

(***************************************************************************)
(* The server: camera and report requests in any order.                    *)
(***************************************************************************)
NoSession == [pc |-> "idle"]
NoRun == [kind |-> "none"]

Init ==
    /\ cameras = <<>> /\ limits = <<>> /\ hazards = <<>> /\ roads = <<>>
    /\ schools = <<>> /\ hospitals = <<>> /\ reports = <<>>
    /\ nextId = 1
    /\ now = 0
    /\ resp = NoResponse
    /\ sess = NoSession
    /\ run = NoRun

Next ==
    \/ \E u \in Users, pos \in Positions : create_camera(u, pos)
    \/ \E u \in Users, id \in 0..MaxId : delete_camera(u, id)
    \/ \E u \in Users, pos \in ReportPositions, t \in ReportTypes, r \in Reasons :
          report_hazard(u, pos, t, r)
    \/ \E point \in QueryPoints, radius \in Radii :
          get_cameras_nearby(point, radius, 0, FALSE, DefaultLimit)

Spec == Init /\ [][Next]_vars

(***************************************************************************)
(* Claims about the server.                                                *)
(***************************************************************************)
\* the stored cameras within the dedup tolerance of a location
CamerasNear(table, pos) ==
    {i \in DOMAIN table : ST_DWithin(table[i].pos, pos, DedupTolerance)}

\* C1: after two user submissions of the same camera, at locations within
\* 10 m of each other, exactly one camera is stored and it has
\* verification_count = 2.  The first submission leaves one user-reported
\* camera; the step is the second submission.
C1_TwoSubmissionsOneCamera ==
    [][\A u \in Users, pos \in Positions :
          ( /\ Len(cameras) = 1
            /\ cameras[1].by # NoUser
            /\ CamerasNear(cameras, pos) = {1}
            /\ create_camera(u, pos) )
          => /\ Len(cameras') = 1
             /\ cameras'[1].vcount = 2]_vars

\* C5: a contradiction report on a camera (a camera_zone report at the
\* camera's location with reason "removed") lowers that camera's
\* confidence_score, never below 0, and the camera stays stored.
C5_ContradictionLowersConfidence ==
    [][\A u \in Users, pos \in ReportPositions :
          report_hazard(u, pos, "camera_zone", "removed")
          => \A i \in DOMAIN cameras : cameras[i].pos = pos =>
                /\ i \in DOMAIN cameras'
                /\ cameras'[i].id = cameras[i].id
                /\ cameras'[i].conf >= 0
                /\ \/ cameras'[i].conf < cameras[i].conf
                   \/ cameras[i].conf = 0 /\ cameras'[i].conf = 0]_vars

\* the camera is among the rows a nearby query around its own location
\* returns, whatever the radius
ReturnedNearby(table, camera) ==
    \A radius \in Radii :
        \E k \in DOMAIN get_nearby_speed_cameras(table, camera.pos, radius, 0,
                                                 FALSE, DefaultLimit) :
            get_nearby_speed_cameras(table, camera.pos, radius, 0, FALSE,
                                     DefaultLimit)[k] = camera

\* C9: a delete-camera request by a user who is not the camera's reporter
\* answers 403 Forbidden, a delete of an unknown id answers 404 NotFound,
\* and both change nothing: every table is as before, the camera is still
\* stored and a nearby query around it still returns it.
C9_RefusedDeleteChangesNothing ==
    [][\A u \in Users, id \in 1..MaxId :
          LET i == IndexOfId(cameras, id)
          IN  (delete_camera(u, id) /\ (i = 0 \/ cameras[i].by # u))
              => /\ resp'.status = IF i = 0 THEN 404 ELSE 403
                 /\ tables' = tables
                 /\ i # 0 => /\ IndexOfId(cameras', id) = i
                             /\ ReturnedNearby(cameras', cameras[i])]_vars

\* a delete was refused with 403 and its camera is stored, owned by another
C9_Witness ==
    /\ resp.op = "delete_camera" /\ resp.status = 403
    /\ \E i \in DOMAIN cameras :
          cameras[i].id = resp.id /\ cameras[i].by \in Users

(***************************************************************************)
(* import_data.py: import_speed_cameras, one record of the file at a time. *)
(* A worker holds its own AsyncSession (autoflush off): rows it has added  *)
(* are pending in the session and reach the table only at a commit.        *)
(***************************************************************************)
BatchSize == 2      \* stands for the commit interval (100 imported cameras)

Workers == {1, 2}
ImportPositions == {0, 8}

\* a string is a sequence of characters
DigitValue ==
    [c \in {"0", "1", "2", "3", "4", "5", "6", "7", "8", "9"} |->
        CASE c = "0" -> 0 [] c = "1" -> 1 [] c = "2" -> 2 [] c = "3" -> 3
          [] c = "4" -> 4 [] c = "5" -> 5 [] c = "6" -> 6 [] c = "7" -> 7
          [] c = "8" -> 8 [] c = "9" -> 9]

isdigit(c) == c \in DOMAIN DigitValue

\* ''.join(filter(str.isdigit, str(maxspeed_str)))
filter_isdigit(str) == SelectSeq(str, isdigit)

\* int(digits); int('') raises ValueError
RECURSIVE int(_)
int(digits) ==
    IF digits = <<>> THEN 0
    ELSE int(SubSeq(digits, 1, Len(digits) - 1)) * 10
         + DigitValue[digits[Len(digits)]]

\* cam_data.get(key, default): a key the record does not have
Missing == <<"<missing>">>
get(value, default) == IF value = Missing THEN default ELSE value

\* one element of data['cameras']; in_range says whether latitude and
\* longitude pass the range test of the loop
CamData(pos, in_range, speed_limit, camera_type, direction) ==
    [pos |-> pos, in_range |-> in_range, speed_limit |-> speed_limit,
     camera_type |-> camera_type, direction |-> direction]

\* a record with a well-formed speed limit, kind and direction
CameraRecord(pos, in_range) ==
    CamData(pos, in_range, <<"8", "0">>, <<"G">>, <<"9", "0">>)

\* int(str) of a decimal literal with an optional sign; anything else
\* raises ValueError
is_int(str) ==
    LET body == IF str # <<>> /\ Head(str) = "-" THEN Tail(str) ELSE str
    IN  body # <<>> /\ \A i \in DOMAIN body : isdigit(body[i])

signed_int(str) ==
    IF Head(str) = "-" THEN -int(Tail(str)) ELSE int(str)

ImportDefaultSpeed == 60

\* speed_limit_str = str(cam_data.get('speed_limit', '0'))
\* int(speed_limit_str) if speed_limit_str != '/' else 60; ValueError -> 60
parse_speed_limit(cam_data) ==
    LET speed_limit_str == get(cam_data.speed_limit, <<"0">>)
    IN  IF speed_limit_str = <<"/">> THEN ImportDefaultSpeed
        ELSE IF is_int(speed_limit_str) THEN signed_int(speed_limit_str)
        ELSE ImportDefaultSpeed

\* camera_type_map.get(cam_data.get('camera_type', 'G'), 'fixed')
camera_type_map(camera_type_char) ==
    CASE camera_type_char = <<"G">> -> "fixed"
      [] camera_type_char = <<"M">> -> "mobile"
      [] camera_type_char = <<"A">> -> "average_speed"
      [] OTHER -> "fixed"

\* direction: None unless it parses to an integer in 0..360
parse_direction(cam_data) ==
    LET direction_str == get(cam_data.direction, <<>>)
    IN  IF direction_str = <<>> THEN NoDirection
        ELSE IF ~is_int(direction_str) THEN NoDirection
        ELSE IF signed_int(direction_str) < 0 \/ signed_int(direction_str) > 360
        THEN NoDirection
        ELSE signed_int(direction_str)

\* existing = select(SpeedCamera).where(ST_DWithin(location, point, 10.0))
\*            .limit(1); existing.scalar()
existing_camera(table, pos) ==
    \E i \in DOMAIN table : ST_DWithin(table[i].pos, pos, DedupTolerance)

\* an import that marks its rows verified and leaves the count at its default
uncounted_camera(cam_data) ==
    SpeedCamera(0, cam_data.pos, parse_speed_limit(cam_data),
                camera_type_map(get(cam_data.camera_type, <<"G">>)),
                parse_direction(cam_data),
                ImportCameraConfidence, TRUE, 0, NoUser)

\* SpeedCamera(confidence_score=0.80, verified=True, verification_count=1)
imported_camera(cam_data) ==
    SpeedCamera(0, cam_data.pos, parse_speed_limit(cam_data),
                camera_type_map(get(cam_data.camera_type, <<"G">>)),
                parse_direction(cam_data),
                ImportCameraConfidence, TRUE, 1, NoUser)

\* failed_at: the record at which a flush of this session has failed (0:
\* none).  The session's transaction is then inactive until a rollback,
\* which the import never issues: every later statement and commit raises
\* PendingRollbackError.
Session(pc, op, file) ==
    [pc |-> pc, op |-> op, file |-> file, idx |-> 0, pending |-> <<>>,
     imported_count |-> 0, skipped_count |-> 0, failed_at |-> 0]

\* the body of "for cam_data in cameras_data", up to the batch commit
camera_record(s, table) ==
    LET cam_data == s.file[s.idx + 1]
    IN  IF ~cam_data.in_range
        THEN [s EXCEPT !.idx = @ + 1, !.skipped_count = @ + 1]
        ELSE IF s.failed_at # 0
        THEN [s EXCEPT !.idx = @ + 1, !.skipped_count = @ + 1]
        ELSE IF existing_camera(table, cam_data.pos)
        THEN [s EXCEPT !.idx = @ + 1, !.skipped_count = @ + 1]
        ELSE [s EXCEPT !.idx = @ + 1,
                       !.pending = Append(@, imported_camera(cam_data)),
                       !.imported_count = @ + 1,
                       !.pc = IF (s.imported_count + 1) % BatchSize = 0
                              THEN "commit" ELSE "scan"]

\* db.commit(): the flush inserts the pending rows, each with a fresh uuid
commit_rows(table, pending, nid) ==
    table \o [i \in DOMAIN pending |-> [pending[i] EXCEPT !.id = nid + i - 1]]

RECURSIVE SeqsUpTo(_, _)
SeqsUpTo(S, n) ==
    IF n = 0 THEN {<<>>}
    ELSE SeqsUpTo(S, n - 1)
         \cup {Append(f, x) : f \in {g \in SeqsUpTo(S, n - 1) : Len(g) = n - 1},
                               x \in S}

ConcurrentFiles ==
    SeqsUpTo({CameraRecord(p, TRUE) : p \in ImportPositions}, MaxFileLen)

\* python import_data.py / bulk_import_cameras.py on one file
start_import(w, file) ==
    /\ sess[w].pc = "idle"
    /\ sess' = [sess EXCEPT ![w] = Session("scan", "import_speed_cameras", file)]
    /\ UNCHANGED <<tables, nextId, now, resp, run>>

import_camera_record(w) ==
    /\ sess[w].pc = "scan"
    /\ sess[w].idx < Len(sess[w].file)
    /\ sess' = [sess EXCEPT ![w] = camera_record(sess[w], cameras)]
    /\ UNCHANGED <<tables, nextId, now, resp, run>>

\* if imported_count % 100 == 0: await db.commit()
import_batch_commit(w) ==
    /\ sess[w].pc = "commit"
    /\ cameras' = commit_rows(cameras, sess[w].pending, nextId)
    /\ nextId' = nextId + Len(sess[w].pending)
    /\ sess' = [sess EXCEPT ![w].pending = <<>>, ![w].pc = "scan"]
    /\ UNCHANGED <<limits, hazards, roads, schools, hospitals, reports,
                   now, resp, run>>

\* the batch commit raises while it flushes (the INSERT fails): the rows of
\* the batch are rolled back and leave the session, and "except Exception"
\* counts one skipped record and goes on
import_batch_commit_fails(w) ==
    /\ sess[w].pc = "commit"
    /\ sess' = [sess EXCEPT ![w].pending = <<>>, ![w].pc = "scan",
                            ![w].skipped_count = @ + 1,
                            ![w].failed_at = sess[w].idx]
    /\ UNCHANGED <<tables, nextId, now, resp, run>>

\* the final commit after the loop; the run returns imported_count.  It is
\* outside the try block: on a session whose flush has failed it raises
import_final_commit(w) ==
    /\ sess[w].pc = "scan"
    /\ sess[w].idx = Len(sess[w].file)
    /\ IF sess[w].failed_at # 0
       THEN /\ sess' = [sess EXCEPT ![w].pending = <<>>, ![w].pc = "raised"]
            /\ UNCHANGED <<cameras, nextId>>
       ELSE /\ cameras' = commit_rows(cameras, sess[w].pending, nextId)
            /\ nextId' = nextId + Len(sess[w].pending)
            /\ sess' = [sess EXCEPT ![w].pending = <<>>, ![w].pc = "done"]
    /\ UNCHANGED <<limits, hazards, roads, schools, hospitals, reports,
                   now, resp, run>>

\* POST /api/cameras served by worker w: the handler runs in its own session
\* and commits before it answers
request_create_camera(w, u, pos) ==
    LET camera == create_speed_camera(nextId, pos, 60, "fixed", NoDirection, UserCameraConfidence, u)
    IN  /\ sess[w].pc = "idle"
        /\ confidence_check(camera)
        /\ cameras' = Append(cameras, camera)
        /\ nextId' = nextId + 1
        /\ resp' = Response("create_camera", 201, camera.id, <<camera>>)
        /\ sess' = [sess EXCEPT ![w] =
              [Session("done", "create_camera", <<CameraRecord(pos, TRUE)>>)
                 EXCEPT !.idx = 1]]
        /\ UNCHANGED <<limits, hazards, roads, schools, hospitals, reports,
                       now, run>>

InitImport ==
    /\ cameras = <<>> /\ limits = <<>> /\ hazards = <<>> /\ roads = <<>>
    /\ schools = <<>> /\ hospitals = <<>> /\ reports = <<>>
    /\ nextId = 1
    /\ now = 0
    /\ resp = NoResponse
    /\ sess = [w \in Workers |-> Session("idle", "none", <<>>)]
    /\ run = NoRun

NextImport ==
    \/ \E w \in Workers, file \in ConcurrentFiles : start_import(w, file)
    \/ \E w \in Workers : import_camera_record(w)
    \/ \E w \in Workers : import_batch_commit(w)
    \/ \E w \in Workers : import_final_commit(w)
    \/ \E w \in Workers, u \in Users, pos \in ImportPositions :
          request_create_camera(w, u, pos)

SpecImport == InitImport /\ [][NextImport]_vars

(***************************************************************************)
(* Claims about concurrent ingestion.                                      *)
(***************************************************************************)
\* worker w has finished an operation that submits one camera at pos
SubmittedAt(w, pos) ==
    /\ sess[w].pc = "done"
    /\ sess[w].file = <<CameraRecord(pos, TRUE)>>

\* C2: two concurrent camera creations at the same coordinates (two
\* create-camera requests, two import runs, or one of each), in every
\* interleaving, leave exactly one camera within the 10 m tolerance.
C2_ConcurrentCreationsOneCamera ==
    \A pos \in ImportPositions :
        (\A w \in Workers : SubmittedAt(w, pos))
        => Cardinality(CamerasNear(cameras, pos)) = 1

\* the record worker w is about to process matches a stored camera
AtMatch(w) ==
    /\ sess[w].pc = "scan"
    /\ sess[w].idx < Len(sess[w].file)
    /\ sess[w].file[sess[w].idx + 1].in_range
    /\ CamerasNear(cameras, sess[w].file[sess[w].idx + 1].pos) # {}

\* C4: when an import candidate lies within 10 m of a stored camera, the
\* match is a confirmation: the matched camera's verification_count goes up
\* by one, its confidence_score goes up (never above 1.0), and no camera is
\* inserted.
C4_MatchIsConfirmation ==
    [][\A w \in Workers :
          (AtMatch(w) /\ import_camera_record(w))
          => /\ Len(cameras') = Len(cameras)
             /\ sess'[w].pending = sess[w].pending
             /\ \E i \in CamerasNear(cameras,
                                      sess[w].file[sess[w].idx + 1].pos) :
                   /\ cameras'[i].vcount = cameras[i].vcount + 1
                   /\ cameras'[i].conf <= 100
                   /\ cameras'[i].conf >= cameras[i].conf
                   /\ cameras[i].conf < 100
                        => cameras'[i].conf > cameras[i].conf]_vars

(***************************************************************************)
(* import_data.py: import_speed_limits, and import_zones.py: import_zones. *)
(***************************************************************************)
MaxSpeedLimit == 200

RoadSpeedLimit(id, geometry, speed_limit_kmh, confMilli, verified, vcount) ==
    [id |-> id, geometry |-> geometry, speed |-> speed_limit_kmh,
     conf |-> Numeric_3_2(confMilli), verified |-> verified,
     vcount |-> vcount]

Zone(id, pos, osm_id) == [id |-> id, pos |-> pos, osm_id |-> osm_id]

Way(geometry, maxspeed) ==
    [type |-> "way", geometry |-> geometry, maxspeed |-> maxspeed]
Node(osm_id, has_coords, pos) ==
    [type |-> "node", id |-> osm_id, has_coords |-> has_coords, pos |-> pos,
     geometry |-> <<>>, maxspeed |-> <<>>]

\* the body of "for element in elements" of import_speed_limits, up to the
\* batch commit.  There is no existence query in this loop.
limit_record(s) ==
    LET element == s.file[s.idx + 1]
        digits == filter_isdigit(element.maxspeed)
        skipped == [s EXCEPT !.idx = @ + 1, !.skipped_count = @ + 1]
    IN  IF element.type # "way" THEN [s EXCEPT !.idx = @ + 1]
        ELSE IF Len(element.geometry) < 2 THEN skipped
        ELSE IF element.maxspeed = <<>> THEN skipped
        ELSE IF digits = <<>> THEN skipped
        ELSE IF int(digits) <= 0 \/ int(digits) > MaxSpeedLimit THEN skipped
        ELSE [s EXCEPT !.idx = @ + 1,
                       !.pending = Append(@,
                           RoadSpeedLimit(0, element.geometry, int(digits),
                                          ImportLimitConfidence, TRUE, 1)),
                       !.imported_count = @ + 1,
                       !.pc = IF (s.imported_count + 1) % BatchSize = 0
                              THEN "commit" ELSE "scan"]

\* a run that does not look at the stored osm ids
no_existing_ids(table) == {}

\* existing_ids: select(SchoolZone.osm_id) / select(HospitalZone.osm_id)
existing_ids(table) == {table[i].osm_id : i \in DOMAIN table}

ZoneSession(file, table) ==
    [pc |-> "scan", op |-> "import_zones", file |-> file, idx |-> 0,
     pending |-> <<>>, imported_count |-> 0, skipped_count |-> 0,
     duplicate_count |-> 0, seen_ids |-> existing_ids(table)]

\* the body of "for element in elements" of import_zones; an id is marked
\* as seen before the coordinates are looked at
zone_record(s) ==
    LET element == s.file[s.idx + 1]
        osm_id == ToString(element.id)
    IN  IF element.type # "node"
        THEN [s EXCEPT !.idx = @ + 1, !.skipped_count = @ + 1]
        ELSE IF osm_id \in s.seen_ids
        THEN [s EXCEPT !.idx = @ + 1, !.duplicate_count = @ + 1]
        ELSE IF ~element.has_coords
        THEN [s EXCEPT !.idx = @ + 1, !.skipped_count = @ + 1,
                       !.seen_ids = @ \cup {osm_id}]
        ELSE [s EXCEPT !.idx = @ + 1,
                       !.seen_ids = @ \cup {osm_id},
                       !.pending = Append(@, Zone(0, element.pos, osm_id)),
                       !.imported_count = @ + 1,
                       !.pc = IF (s.imported_count + 1) % BatchSize = 0
                              THEN "commit" ELSE "scan"]

\* one run of an import function from its first record to its return
RECURSIVE import_speed_cameras(_, _, _)
import_speed_cameras(s, table, nid) ==
    IF s.pc = "commit"
    THEN import_speed_cameras([s EXCEPT !.pending = <<>>, !.pc = "scan"],
                              commit_rows(table, s.pending, nid),
                              nid + Len(s.pending))
    ELSE IF s.idx < Len(s.file)
    THEN import_speed_cameras(camera_record(s, table), table, nid)
    ELSE [s |-> [s EXCEPT !.pending = <<>>, !.pc = "done"],
          table |-> commit_rows(table, s.pending, nid),
          nid |-> nid + Len(s.pending)]

RECURSIVE import_speed_limits(_, _, _)
import_speed_limits(s, table, nid) ==
    IF s.pc = "commit"
    THEN import_speed_limits([s EXCEPT !.pending = <<>>, !.pc = "scan"],
                             commit_rows(table, s.pending, nid),
                             nid + Len(s.pending))
    ELSE IF s.idx < Len(s.file)
    THEN import_speed_limits(limit_record(s), table, nid)
    ELSE [s |-> [s EXCEPT !.pending = <<>>, !.pc = "done"],
          table |-> commit_rows(table, s.pending, nid),
          nid |-> nid + Len(s.pending)]

RECURSIVE import_zones(_, _, _)
import_zones(s, table, nid) ==
    IF s.pc = "commit"
    THEN import_zones([s EXCEPT !.pending = <<>>, !.pc = "scan"],
                      commit_rows(table, s.pending, nid),
                      nid + Len(s.pending))
    ELSE IF s.idx < Len(s.file)
    THEN import_zones(zone_record(s), table, nid)
    ELSE [s |-> [s EXCEPT !.pending = <<>>, !.pc = "done"],
          table |-> commit_rows(table, s.pending, nid),
          nid |-> nid + Len(s.pending)]

(***************************************************************************)
(* The import scripts run one after the other: a dataset is imported and   *)
(* then imported again.                                                    *)
(***************************************************************************)
CameraRecords ==
    {CameraRecord(p, TRUE) : p \in Positions} \cup {CameraRecord(0, FALSE)}
CameraFiles == SeqsUpTo(CameraRecords, MaxFileLen)

LimitElements ==
    {Way(<<0, 8>>, <<"4", "0">>),
     Way(<<8, 30>>, <<"3", "0", " ", "m", "p", "h">>),
     Way(<<0>>, <<"4", "0">>),
     Way(<<0, 8>>, <<>>),
     Way(<<8, 30>>, <<"n", "o", "n", "e">>),
     Way(<<0, 30>>, <<"2", "5", "0">>),
     Node(101, TRUE, 0)}
LimitFiles == SeqsUpTo(LimitElements, MaxFileLen)

ZoneElements ==
    {Node(101, TRUE, 0), Node(101, FALSE, 0), Node(102, TRUE, 8),
     Way(<<0, 8>>, <<>>)}
ZoneFiles == SeqsUpTo(ZoneElements, MaxFileLen)
ZoneTypes == {"school", "hospital"}

Run(phase, kind, zone_type, file, s) ==
    [phase |-> phase, kind |-> kind, zone_type |-> zone_type, file |-> file,
     imported_count |-> s.imported_count, skipped_count |-> s.skipped_count]

\* the first run takes any dataset, the second run the same one
may_run(kind, zone_type, file) ==
    \/ run.phase = "none"
    \/ /\ run.phase = "once"
       /\ run.kind = kind
       /\ run.zone_type = zone_type
       /\ run.file = file

next_phase == IF run.phase = "none" THEN "once" ELSE "twice"

run_import_speed_cameras(file) ==
    LET r == import_speed_cameras(
                 Session("scan", "import_speed_cameras", file), cameras, nextId)
    IN  /\ may_run("import_speed_cameras", "", file)
        /\ cameras' = r.table
        /\ nextId' = r.nid
        /\ run' = Run(next_phase, "import_speed_cameras", "", file, r.s)
        /\ UNCHANGED <<limits, hazards, roads, schools, hospitals, reports,
                       now, resp, sess>>

run_import_speed_limits(file) ==
    LET r == import_speed_limits(
                 Session("scan", "import_speed_limits", file), limits, nextId)
    IN  /\ may_run("import_speed_limits", "", file)
        /\ limits' = r.table
        /\ nextId' = r.nid
        /\ run' = Run(next_phase, "import_speed_limits", "", file, r.s)
        /\ UNCHANGED <<cameras, hazards, roads, schools, hospitals, reports,
                       now, resp, sess>>

run_import_zones(file, zone_type) ==
    LET table == IF zone_type = "school" THEN schools ELSE hospitals
        r == import_zones(ZoneSession(file, table), table, nextId)
    IN  /\ may_run("import_zones", zone_type, file)
        /\ schools' = IF zone_type = "school" THEN r.table ELSE schools
        /\ hospitals' = IF zone_type = "school" THEN hospitals ELSE r.table
        /\ nextId' = r.nid
        /\ run' = Run(next_phase, "import_zones", zone_type, file, r.s)
        /\ UNCHANGED <<cameras, limits, hazards, roads, reports, now, resp,
                       sess>>

\* the store the first run meets: empty, or holding one user-submitted camera
InitReimport ==
    /\ \/ cameras = <<>> /\ nextId = 1
       \/ \E u \in Users, pos \in Positions :
             /\ cameras = <<create_speed_camera(1, pos, 60, "fixed", NoDirection, UserCameraConfidence, u)>>
             /\ nextId = 2
    /\ limits = <<>> /\ hazards = <<>> /\ roads = <<>>
    /\ schools = <<>> /\ hospitals = <<>> /\ reports = <<>>
    /\ now = 0
    /\ resp = NoResponse
    /\ sess = NoSession
    /\ run = [phase |-> "none", kind |-> "none", zone_type |-> "",
              file |-> <<>>, imported_count |-> 0, skipped_count |-> 0]

NextReimport ==
    \/ \E file \in CameraFiles : run_import_speed_cameras(file)
    \/ \E file \in LimitFiles : run_import_speed_limits(file)
    \/ \E file \in ZoneFiles, zone_type \in ZoneTypes :
          run_import_zones(file, zone_type)

SpecReimport == InitReimport /\ [][NextReimport]_vars

\* C3: a second run of a bulk import on the same dataset adds no entity:
\* the counts of cameras, road speed limits, school zones and hospital
\* zones after the second run equal the counts after the first run.
C3_ReimportAddsNothing ==
    [][(run.phase = "once" /\ run'.phase = "twice")
       => /\ Len(cameras') = Len(cameras)
          /\ Len(limits') = Len(limits)
          /\ Len(schools') = Len(schools)
          /\ Len(hospitals') = Len(hospitals)]_vars

(***************************************************************************)
(* queries.py: the other nearby queries and the along-route queries.       *)
(***************************************************************************)
\* verified and verification_count take their column defaults: no writer
\* of the repository passes them
HazardDetection(id, pos, confMilli, by, expires_at, is_active) ==
    [id |-> id, pos |-> pos, conf |-> Numeric_3_2(confMilli), by |-> by,
     expires_at |-> expires_at, is_active |-> is_active,
     verified |-> FALSE, vcount |-> 0]

HazardousRoadSegment(id, geometry, confMilli, by) ==
    [id |-> id, geometry |-> geometry, conf |-> Numeric_3_2(confMilli),
     by |-> by]

\* ST_Distance(linestring, linestring)
ST_DistanceLines(a, b) ==
    LET d == {ST_DistanceLine(a, y) : y \in Range(b)}
             \cup {ST_DistanceLine(b, x) : x \in Range(a)}
    IN  CHOOSE m \in d : \A n \in d : m <= n

\* add_columns(distance_col).order_by(distance_col).limit(limit), row[0]
nearest(hit, distances, limit) ==
    first_column(limit_rows(order_by(
        [i \in DOMAIN hit |-> [row |-> hit[i], distance |-> distances[i]]]),
        limit))

get_nearby_school_zones(table, point, radius_meters, limit) ==
    LET Keep(z) == ST_DWithin(z.pos, point, radius_meters)
        hit == SelectSeq(table, Keep)
    IN  nearest(hit, [i \in DOMAIN hit |-> ST_Distance(hit[i].pos, point)],
                limit)

get_nearby_hospital_zones(table, point, radius_meters, limit) ==
    LET Keep(z) == ST_DWithin(z.pos, point, radius_meters)
        hit == SelectSeq(table, Keep)
    IN  nearest(hit, [i \in DOMAIN hit |-> ST_Distance(hit[i].pos, point)],
                limit)

get_nearby_speed_limits(table, point, radius_meters, min_confidence, verified_only, limit) ==
    LET Keep(l) == /\ ST_DWithinLine(l.geometry, point, radius_meters)
                   /\ min_confidence_filter(l, min_confidence)
                   /\ verified_filter(l, verified_only)
        hit == SelectSeq(table, Keep)
    IN  nearest(hit,
                [i \in DOMAIN hit |-> ST_DistanceLine(hit[i].geometry, point)],
                limit)

\* a query that tests the flag and forgets the expiry
active_flag_only(h, active_only, at) == active_only => h.is_active

\* if active_only: is_active == True AND
\*                 (expires_at IS NULL OR expires_at > now())
active_filter(h, active_only, at) ==
    active_only => /\ h.is_active
                   /\ (h.expires_at = NoTime \/ h.expires_at > at)

get_nearby_hazards(table, point, radius_meters, min_confidence, active_only, limit, at) ==
    LET Keep(h) == /\ ST_DWithin(h.pos, point, radius_meters)
                   /\ min_confidence_filter(h, min_confidence)
                   /\ active_filter(h, active_only, at)
        hit == SelectSeq(table, Keep)
    IN  nearest(hit, [i \in DOMAIN hit |-> ST_Distance(hit[i].pos, point)],
                limit)

get_nearby_hazardous_roads(table, point, radius_meters, min_confidence, limit) ==
    LET Keep(r) == /\ ST_DWithinLine(r.geometry, point, radius_meters)
                   /\ min_confidence_filter(r, min_confidence)
        hit == SelectSeq(table, Keep)
    IN  nearest(hit,
                [i \in DOMAIN hit |-> ST_DistanceLine(hit[i].geometry, point)],
                limit)

\* no order_by and no limit: the rows come in the order of the scan
get_speed_cameras_along_route(table, route_coordinates, buffer_meters, min_confidence, verified_only) ==
    LET Keep(c) == /\ ST_DWithinLine(route_coordinates, c.pos, buffer_meters)
                   /\ min_confidence_filter(c, min_confidence)
                   /\ verified_filter(c, verified_only)
    IN  SelectSeq(table, Keep)

get_speed_limits_along_route(table, route_coordinates, buffer_meters, min_confidence, verified_only) ==
    LET Keep(l) == /\ ST_DistanceLines(l.geometry, route_coordinates)
                        <= buffer_meters
                   /\ min_confidence_filter(l, min_confidence)
                   /\ verified_filter(l, verified_only)
    IN  SelectSeq(table, Keep)

(***************************************************************************)
(* The queries, run against any tables the schema of models.py admits,     *)
(* one request at a time.                                                  *)
(***************************************************************************)
Request(point, radius_meters, min_confidence, flag, limit, at) ==
    [point |-> point, radius_meters |-> radius_meters,
     min_confidence |-> min_confidence, flag |-> flag, limit |-> limit,
     at |-> at]

QueryResponse(op, req, rows) ==
    [op |-> op, status |-> 200, id |-> 0, rows |-> rows, req |-> req]

query_cameras(point, radius, min_confidence, verified_only, limit) ==
    /\ resp = NoResponse
    /\ resp' = QueryResponse("get_nearby_speed_cameras",
          Request(point, radius, min_confidence, verified_only, limit, now),
          get_nearby_speed_cameras(cameras, point, radius, min_confidence,
                                   verified_only, limit))
    /\ UNCHANGED <<tables, nextId, now, sess, run>>

query_limits(point, radius, min_confidence, verified_only, limit) ==
    /\ resp = NoResponse
    /\ resp' = QueryResponse("get_nearby_speed_limits",
          Request(point, radius, min_confidence, verified_only, limit, now),
          get_nearby_speed_limits(limits, point, radius, min_confidence,
                                  verified_only, limit))
    /\ UNCHANGED <<tables, nextId, now, sess, run>>

query_hazards(point, radius, min_confidence, active_only, limit) ==
    /\ resp = NoResponse
    /\ resp' = QueryResponse("get_nearby_hazards",
          Request(point, radius, min_confidence, active_only, limit, now),
          get_nearby_hazards(hazards, point, radius, min_confidence,
                             active_only, limit, now))
    /\ UNCHANGED <<tables, nextId, now, sess, run>>

query_roads(point, radius, min_confidence, limit) ==
    /\ resp = NoResponse
    /\ resp' = QueryResponse("get_nearby_hazardous_roads",
          Request(point, radius, min_confidence, FALSE, limit, now),
          get_nearby_hazardous_roads(roads, point, radius, min_confidence,
                                     limit))
    /\ UNCHANGED <<tables, nextId, now, sess, run>>

query_schools(point, radius, limit) ==
    /\ resp = NoResponse
    /\ resp' = QueryResponse("get_nearby_school_zones",
          Request(point, radius, 0, FALSE, limit, now),
          get_nearby_school_zones(schools, point, radius, limit))
    /\ UNCHANGED <<tables, nextId, now, sess, run>>

query_hospitals(point, radius, limit) ==
    /\ resp = NoResponse
    /\ resp' = QueryResponse("get_nearby_hospital_zones",
          Request(point, radius, 0, FALSE, limit, now),
          get_nearby_hospital_zones(hospitals, point, radius, limit))
    /\ UNCHANGED <<tables, nextId, now, sess, run>>

query_cameras_along_route(route, buffer, min_confidence, verified_only) ==
    /\ resp = NoResponse
    /\ resp' = QueryResponse("get_speed_cameras_along_route",
          Request(route, buffer, min_confidence, verified_only, 0, now),
          get_speed_cameras_along_route(cameras, route, buffer,
                                        min_confidence, verified_only))
    /\ UNCHANGED <<tables, nextId, now, sess, run>>

query_limits_along_route(route, buffer, min_confidence, verified_only) ==
    /\ resp = NoResponse
    /\ resp' = QueryResponse("get_speed_limits_along_route",
          Request(route, buffer, min_confidence, verified_only, 0, now),
          get_speed_limits_along_route(limits, route, buffer,
                                       min_confidence, verified_only))
    /\ UNCHANGED <<tables, nextId, now, sess, run>>

\* the result is returned to the caller and the request ends
reply ==
    /\ resp # NoResponse
    /\ resp' = NoResponse
    /\ UNCHANGED <<tables, nextId, now, sess, run>>

\* func.now() moves on
tick ==
    /\ now < MaxTime
    /\ now' = now + 1
    /\ UNCHANGED <<tables, nextId, resp, sess, run>>

with_ids(rows) == [i \in DOMAIN rows |-> [rows[i] EXCEPT !.id = i]]

CameraRows ==
    {SpeedCamera(0, 8, 60, "fixed", NoDirection, 0, FALSE, 0, "u1"),
     SpeedCamera(0, 12, 60, "fixed", NoDirection, ImportCameraConfidence, TRUE, 1, NoUser),
     SpeedCamera(0, 30, 60, "fixed", NoDirection, UserCameraConfidence, FALSE, 0, "u2"),
     SpeedCamera(0, 0, 60, "fixed", NoDirection, ImportCameraConfidence, TRUE, 1, NoUser)}

LimitRows ==
    {RoadSpeedLimit(0, <<0, 8>>, 40, ImportLimitConfidence, TRUE, 1),
     RoadSpeedLimit(0, <<12, 30>>, 30, 0, FALSE, 0),
     RoadSpeedLimit(0, <<30, 40>>, 60, ImportLimitConfidence, TRUE, 1),
     RoadSpeedLimit(0, <<8, 12>>, 50, UserCameraConfidence, FALSE, 0)}

HazardRows ==
    {HazardDetection(0, 8, 900, "u1", NoTime, TRUE),
     HazardDetection(0, 8, 900, "u1", 1, TRUE),
     HazardDetection(0, 12, 200, "u2", NoTime, FALSE),
     HazardDetection(0, 12, 200, "u2", NoTime, TRUE)}

RoadRows ==
    {HazardousRoadSegment(0, <<0, 8>>, 900, "u1"),
     HazardousRoadSegment(0, <<12, 30>>, 0, "u2"),
     HazardousRoadSegment(0, <<30, 40>>, 500, "u1"),
     HazardousRoadSegment(0, <<8, 12>>, 900, NoUser)}

ZoneRows == {Zone(0, 8, "101"), Zone(0, 12, "102"), Zone(0, 30, "103"),
             Zone(0, 10, "104")}

\* osm_id is a unique column
unique_osm_id(rows) ==
    \A i, j \in DOMAIN rows : rows[i].osm_id = rows[j].osm_id => i = j

Routes == {<<0, 8>>, <<8, 30, 12>>}
Buffers == {1, 5}

\* one table holds up to MaxRows rows, the others are empty
InitQuery ==
    /\ \E kind \in {"cameras", "limits", "hazards", "roads", "schools",
                     "hospitals"} :
          /\ cameras \in IF kind = "cameras"
                THEN {with_ids(t) : t \in SeqsUpTo(CameraRows, MaxRows)}
                ELSE {<<>>}
          /\ limits \in IF kind = "limits"
                THEN {with_ids(t) : t \in SeqsUpTo(LimitRows, MaxRows)}
                ELSE {<<>>}
          /\ hazards \in IF kind = "hazards"
                THEN {with_ids(t) : t \in SeqsUpTo(HazardRows, MaxRows)}
                ELSE {<<>>}
          /\ roads \in IF kind = "roads"
                THEN {with_ids(t) : t \in SeqsUpTo(RoadRows, MaxRows)}
                ELSE {<<>>}
          /\ schools \in IF kind = "schools"
                THEN {with_ids(t) : t \in {z \in SeqsUpTo(ZoneRows, MaxRows) :
                                              unique_osm_id(z)}}
                ELSE {<<>>}
          /\ hospitals \in IF kind = "hospitals"
                THEN {with_ids(t) : t \in {z \in SeqsUpTo(ZoneRows, MaxRows) :
                                              unique_osm_id(z)}}
                ELSE {<<>>}
    /\ reports = <<>>
    /\ nextId = MaxRows + 1
    /\ now = 0
    /\ resp = NoResponse
    /\ sess = NoSession
    /\ run = NoRun

NextQuery ==
    \/ \E point \in QueryPoints, radius \in Radii, m \in MinConfidences,
          verified_only \in BOOLEAN, limit \in Limits :
          query_cameras(point, radius, m, verified_only, limit)
    \/ \E point \in QueryPoints, radius \in Radii, m \in MinConfidences,
          verified_only \in BOOLEAN, limit \in Limits :
          query_limits(point, radius, m, verified_only, limit)
    \/ \E point \in QueryPoints, radius \in Radii, m \in MinConfidences,
          active_only \in BOOLEAN, limit \in Limits :
          query_hazards(point, radius, m, active_only, limit)
    \/ \E point \in QueryPoints, radius \in Radii, m \in MinConfidences,
          limit \in Limits :
          query_roads(point, radius, m, limit)
    \/ \E point \in QueryPoints, radius \in Radii, limit \in Limits :
          query_schools(point, radius, limit)
    \/ \E point \in QueryPoints, radius \in Radii, limit \in Limits :
          query_hospitals(point, radius, limit)
    \/ \E route \in Routes, buffer \in Buffers, m \in MinConfidences,
          verified_only \in BOOLEAN :
          query_cameras_along_route(route, buffer, m, verified_only)
    \/ \E route \in Routes, buffer \in Buffers, m \in MinConfidences,
          verified_only \in BOOLEAN :
          query_limits_along_route(route, buffer, m, verified_only)
    \/ reply
    \/ tick

SpecQuery == InitQuery /\ [][NextQuery]_vars

(***************************************************************************)
(* Claims about the queries.                                               *)
(***************************************************************************)
NearbyOps ==
    {"get_nearby_speed_cameras", "get_nearby_speed_limits",
     "get_nearby_hazards", "get_nearby_hazardous_roads",
     "get_nearby_school_zones", "get_nearby_hospital_zones"}

ConfidenceOps ==
    {"get_nearby_speed_cameras", "get_nearby_speed_limits",
     "get_nearby_hazards", "get_nearby_hazardous_roads",
     "get_speed_cameras_along_route", "get_speed_limits_along_route"}

\* distance of an entity, point or linestring, from the query point
DistanceTo(row, point) ==
    IF "geometry" \in DOMAIN row THEN ST_DistanceLine(row.geometry, point)
    ELSE ST_Distance(row.pos, point)

\* C6: every entity a nearby query returns, on any of the six entity types,
\* lies at most radius_meters from the query point, and the returned
\* sequence is in non-decreasing order of distance.
C6_NearbyWithinRadiusSorted ==
    resp.op \in NearbyOps =>
        /\ \A k \in DOMAIN resp.rows :
              DistanceTo(resp.rows[k], resp.req.point) <= resp.req.radius_meters
        /\ \A k \in DOMAIN resp.rows : \A l \in DOMAIN resp.rows :
              k < l => DistanceTo(resp.rows[k], resp.req.point)
                       <= DistanceTo(resp.rows[l], resp.req.point)

\* a nearby query has returned two entities at different distances, the
\* nearer one stored after the farther one
C6_Witness ==
    /\ resp.op \in NearbyOps
    /\ Len(resp.rows) >= 2
    /\ DistanceTo(resp.rows[1], resp.req.point)
         < DistanceTo(resp.rows[2], resp.req.point)
    /\ resp.rows[1].id > resp.rows[2].id

\* C7: for every min_confidence in [0,1], 0 included, no entity returned by
\* a nearby or along-route query that takes min_confidence has a
\* confidence_score below it.
C7_MinConfidenceRespected ==
    resp.op \in ConfidenceOps =>
        \A k \in DOMAIN resp.rows :
            resp.rows[k].conf * 10 >= resp.req.min_confidence

AllStored == cameras \o limits \o hazards \o roads

\* a query with a positive min_confidence has returned an entity and has
\* left out a stored entity of lower confidence
C7_Witness ==
    /\ resp.op \in ConfidenceOps
    /\ resp.req.min_confidence > 0
    /\ resp.rows # <<>>
    /\ \E i \in DOMAIN AllStored :
          AllStored[i].conf * 10 < resp.req.min_confidence

Expired(h, at) == h.expires_at # NoTime /\ h.expires_at <= at

Returned(h) == \E k \in DOMAIN resp.rows : resp.rows[k] = h

ActiveOnlyQuery == resp.op = "get_nearby_hazards" /\ resp.req.flag

\* C8, parts one and two: with active_only, no returned hazard has expired
\* at the time of the query and none has is_active = false.
NoExpiredNoInactive ==
    ActiveOnlyQuery =>
        \A k \in DOMAIN resp.rows :
            /\ ~Expired(resp.rows[k], resp.req.at)
            /\ resp.rows[k].is_active

\* C8, as claimed: with active_only, an expired hazard is never returned, a
\* hazard with is_active = false is never returned, and a hazard with no
\* expires_at and is_active = true within the radius is returned.
C8_ActiveHazardReturned ==
    /\ NoExpiredNoInactive
    /\ ActiveOnlyQuery =>
          \A i \in DOMAIN hazards :
              ( /\ hazards[i].expires_at = NoTime
                /\ hazards[i].is_active
                /\ ST_Distance(hazards[i].pos, resp.req.point)
                     <= resp.req.radius_meters )
              => Returned(hazards[i])

\* C8, as the code has it: the third part holds for a hazard that also
\* passes min_confidence, unless the result is cut off by the limit (it then
\* holds the limit nearest).
C8_ActiveHazardReturnedUnlessCut ==
    /\ NoExpiredNoInactive
    /\ ActiveOnlyQuery =>
          \A i \in DOMAIN hazards :
              ( /\ hazards[i].expires_at = NoTime
                /\ hazards[i].is_active
                /\ ST_Distance(hazards[i].pos, resp.req.point)
                     <= resp.req.radius_meters
                /\ hazards[i].conf * 10 >= resp.req.min_confidence )
              => \/ Returned(hazards[i])
                 \/ /\ Len(resp.rows) = resp.req.limit
                    /\ \A k \in DOMAIN resp.rows :
                          ST_Distance(resp.rows[k].pos, resp.req.point)
                          <= ST_Distance(hazards[i].pos, resp.req.point)

\* an active_only query has returned a hazard without expiry and has left
\* out an expired hazard whose is_active flag is true
C8_Witness ==
    /\ ActiveOnlyQuery
    /\ \E k \in DOMAIN resp.rows : resp.rows[k].expires_at = NoTime
    /\ \E i \in DOMAIN hazards :
          /\ hazards[i].is_active
          /\ Expired(hazards[i], resp.req.at)
          /\ ST_Distance(hazards[i].pos, resp.req.point)
               <= resp.req.radius_meters
          /\ ~Returned(hazards[i])

(***************************************************************************)
(* The writers of confidence_score: the create functions of queries.py     *)
(* called with a confidence, the hazard handlers of main.py, the imports.  *)
(* A flush that violates the check constraint raises IntegrityError: the   *)
(* handler rolls back and answers 500.                                     *)
(***************************************************************************)
create_road_speed_limit(id, geometry, speed_limit_kmh, confMilli) ==
    RoadSpeedLimit(id, geometry, speed_limit_kmh, confMilli, FALSE, 0)

create_hazard_detection(id, pos, confMilli, by, expires_at) ==
    HazardDetection(id, pos, confMilli, by, expires_at, TRUE)

create_hazardous_road_segment(id, geometry, confMilli, by) ==
    HazardousRoadSegment(id, geometry, confMilli, by)

\* POST /api/hazards: confidence_score is a float form field without bounds
create_hazard(u, pos, confidence_score) ==
    LET hazard == create_hazard_detection(nextId, pos, confidence_score, u,
                                          NoTime)
    IN  /\ nextId <= MaxId
        /\ IF confidence_check(hazard)
           THEN /\ hazards' = Append(hazards, hazard)
                /\ nextId' = nextId + 1
                /\ resp' = Response("create_hazard", 201, hazard.id,
                                    <<hazard>>)
           ELSE /\ UNCHANGED <<hazards, nextId>>
                /\ resp' = Response("create_hazard", 500, 0, <<>>)
        /\ UNCHANGED <<cameras, limits, roads, schools, hospitals, reports,
                       now, sess, run>>

\* sorted(detected_damages, key=confidence, reverse=True)[0]["confidence"]
primary_confidence(detected_damages) ==
    CHOOSE c \in Range(detected_damages) :
        \A d \in Range(detected_damages) : c >= d

\* POST /api/hazards/detect-and-save: the detector reports the confidence
\* of every box it keeps (conf=0.25 and above)
detect_and_save_hazard(u, pos, detected_damages) ==
    /\ nextId <= MaxId
    /\ IF detected_damages = <<>>
       THEN /\ UNCHANGED <<hazards, nextId>>
            /\ resp' = Response("detect_and_save_hazard", 200, 0, <<>>)
       ELSE LET hazard == create_hazard_detection(nextId, pos,
                              primary_confidence(detected_damages), u, NoTime)
            IN  IF confidence_check(hazard)
                THEN /\ hazards' = Append(hazards, hazard)
                     /\ nextId' = nextId + 1
                     /\ resp' = Response("detect_and_save_hazard", 200,
                                         hazard.id, <<hazard>>)
                ELSE /\ UNCHANGED <<hazards, nextId>>
                     /\ resp' = Response("detect_and_save_hazard", 500, 0,
                                         <<>>)
    /\ UNCHANGED <<cameras, limits, roads, schools, hospitals, reports,
                   now, sess, run>>

\* a caller of queries.create_speed_camera that commits (example_usage.py)
call_create_speed_camera(pos, confidence_score) ==
    LET camera == create_speed_camera(nextId, pos, 60, "fixed", NoDirection, confidence_score, NoUser)
    IN  /\ nextId <= MaxId
        /\ IF confidence_check(camera)
           THEN /\ cameras' = Append(cameras, camera)
                /\ nextId' = nextId + 1
                /\ resp' = Response("create_speed_camera", 201, camera.id,
                                    <<camera>>)
           ELSE /\ UNCHANGED <<cameras, nextId>>
                /\ resp' = Response("create_speed_camera", 500, 0, <<>>)
        /\ UNCHANGED <<limits, hazards, roads, schools, hospitals, reports,
                       now, sess, run>>

\* ST_MakeLine(ARRAY[...]): an empty ARRAY[] is an SQL error; an array of
\* one point gives a LINESTRING of one vertex
ST_MakeLine(coordinates) == coordinates # <<>>

\* a caller of queries.create_road_speed_limit that commits
call_create_road_speed_limit(geometry, speed_limit_kmh, confidence_score) ==
    LET limit == create_road_speed_limit(nextId, geometry, speed_limit_kmh,
                                         confidence_score)
    IN  /\ nextId <= MaxId
        /\ IF ST_MakeLine(geometry) /\ confidence_check(limit)
           THEN /\ limits' = Append(limits, limit)
                /\ nextId' = nextId + 1
                /\ resp' = Response("create_road_speed_limit", 201, limit.id,
                                    <<limit>>)
           ELSE /\ UNCHANGED <<limits, nextId>>
                /\ resp' = Response("create_road_speed_limit", 500, 0, <<>>)
        /\ UNCHANGED <<cameras, hazards, roads, schools, hospitals, reports,
                       now, sess, run>>

\* a caller of queries.create_hazardous_road_segment that commits
call_create_hazardous_road_segment(geometry, confidence_score) ==
    LET segment == create_hazardous_road_segment(nextId, geometry,
                                                 confidence_score, NoUser)
    IN  /\ nextId <= MaxId
        /\ IF ST_MakeLine(geometry) /\ confidence_check(segment)
           THEN /\ roads' = Append(roads, segment)
                /\ nextId' = nextId + 1
                /\ resp' = Response("create_hazardous_road_segment", 201,
                                    segment.id, <<segment>>)
           ELSE /\ UNCHANGED <<roads, nextId>>
                /\ resp' = Response("create_hazardous_road_segment", 500, 0,
                                    <<>>)
        /\ UNCHANGED <<cameras, limits, hazards, schools, hospitals, reports,
                       now, sess, run>>

\* confidences a client may send, in thousandths: below, at the edges of,
\* inside and above [0, 1]
ConfidenceInputs == {-100, -4, 500, 1004, 1100}
EdgeConfidenceInputs == {-100, 1004}
DetectorOutputs == {<<>>, <<300>>, <<300, 996>>}

InitConf ==
    /\ cameras = <<>> /\ limits = <<>> /\ hazards = <<>> /\ roads = <<>>
    /\ schools = <<>> /\ hospitals = <<>> /\ reports = <<>>
    /\ nextId = 1
    /\ now = 0
    /\ resp = NoResponse
    /\ sess = NoSession
    /\ run = [phase |-> "none", kind |-> "none", zone_type |-> "",
              file |-> <<>>, imported_count |-> 0, skipped_count |-> 0]

NextConf ==
    \/ nextId <= MaxCreated /\ create_camera("u1", 0)
    \/ \E c \in ConfidenceInputs :
          nextId <= MaxCreated /\ create_hazard("u1", 8, c)
    \/ \E d \in DetectorOutputs :
          nextId <= MaxCreated /\ detect_and_save_hazard("u2", 8, d)
    \/ \E c \in EdgeConfidenceInputs :
          nextId <= MaxCreated /\ call_create_speed_camera(30, c)
    \/ \E c \in EdgeConfidenceInputs :
          nextId <= MaxCreated /\ call_create_road_speed_limit(<<0, 8>>, 40, c)
    \/ \E c \in EdgeConfidenceInputs :
          nextId <= MaxCreated
          /\ call_create_hazardous_road_segment(<<8, 30>>, c)
    \/ nextId <= MaxCreated /\ report_hazard("u1", 0, "camera_zone", "removed")
    \/ run_import_speed_cameras(<<CameraRecord(0, TRUE)>>)
    \/ run_import_speed_limits(<<Way(<<0, 8>>, <<"4", "0">>)>>)

SpecConf == InitConf /\ [][NextConf]_vars

StoredConfidenceInRange ==
    \A i \in DOMAIN AllStored : confidence_check(AllStored[i])

\* C10: in every reachable state every stored camera, road speed limit,
\* hazard and hazardous road segment has confidence_score within [0,1],
\* and a create-hazard request carrying a confidence outside [0,1] stores
\* no entity.
C10_ConfidenceInRange ==
    [][/\ StoredConfidenceInRange'
       /\ \A u \in Users, pos \in Positions, c \in ConfidenceInputs :
             (create_hazard(u, pos, c) /\ (c < 0 \/ c > 1000))
             => tables' = tables]_vars

(***************************************************************************)
(* Field values: the writers of cameras, road speed limits and hazardous   *)
(* road segments, fed with well-formed and ill-formed values.              *)
(***************************************************************************)
CameraRequests ==
    {CreateCameraRequest(0, speed, kind, direction, typed) :
        speed \in {0, 60, 201}, kind \in {"fixed", "laser"},
        direction \in {NoDirection, 90, 361}, typed \in BOOLEAN}

\* speed_limit values of the camera files: "80", "/", "0", "abc", "250"
\* and no speed_limit key
SpeedLimitStrings ==
    {<<"8", "0">>, <<"/">>, <<"0">>, <<"a", "b", "c">>, <<"2", "5", "0">>,
     Missing}

SpeedFiles ==
    {<<CamData(0, TRUE, speed_limit, <<"G">>, Missing)>> :
        speed_limit \in SpeedLimitStrings}

\* files of one way each: every maxspeed and geometry of LimitElements
OneWayFiles == {<<element>> : element \in LimitElements}

Coordinates == {<<>>, <<0>>, <<0, 8>>}

InitValidate ==
    /\ cameras = <<>> /\ limits = <<>> /\ hazards = <<>> /\ roads = <<>>
    /\ schools = <<>> /\ hospitals = <<>> /\ reports = <<>>
    /\ nextId = 1
    /\ now = 0
    /\ resp = NoResponse
    /\ sess = NoSession
    /\ run = [phase |-> "none", kind |-> "none", zone_type |-> "",
              file |-> <<>>, imported_count |-> 0, skipped_count |-> 0]

NextValidate ==
    \/ \E request \in CameraRequests :
          nextId <= MaxCreated /\ post_camera("u1", request)
    \/ \E geometry \in Coordinates, speed \in {0, 40} :
          nextId <= MaxCreated
          /\ call_create_road_speed_limit(geometry, speed, UserCameraConfidence)
    \/ \E geometry \in Coordinates :
          nextId <= MaxCreated
          /\ call_create_hazardous_road_segment(geometry, UserCameraConfidence)
    \/ \E file \in SpeedFiles : run_import_speed_cameras(file)
    \/ \E file \in OneWayFiles : run_import_speed_limits(file)

SpecValidate == InitValidate /\ [][NextValidate]_vars

\* C13: a request to create a speed camera whose speed limit is outside
\* 1..200, whose direction is outside 0..360, whose kind is not one of
\* fixed, mobile, average_speed, or whose body is malformed is answered
\* with a validation error and stores nothing.
C13_IllFormedCameraRejected ==
    [][\A request \in CameraRequests :
          (post_camera("u1", request)
             /\ ~(request.typed /\ field_constraints(request)))
          => /\ tables' = tables
             /\ resp'.status = 422]_vars

SpeedInRange(row) == row.speed > 0 /\ row.speed <= MaxSpeedLimit

\* C14: in every reachable state every stored speed camera and every stored
\* road speed limit has speed_limit_kmh in (0, 200].
C14_SpeedLimitInRange ==
    /\ \A i \in DOMAIN cameras : SpeedInRange(cameras[i])
    /\ \A i \in DOMAIN limits : SpeedInRange(limits[i])

\* C15: in every reachable state every stored road speed limit and every
\* stored hazardous road segment has at least 2 vertices.
C15_TwoVertices ==
    /\ \A i \in DOMAIN limits : Len(limits[i].geometry) >= 2
    /\ \A i \in DOMAIN roads : Len(roads[i].geometry) >= 2

(***************************************************************************)
(* import_zones.py run any number of times, on any files, for either zone  *)
(* type, one run after the other.                                          *)
(***************************************************************************)
MaxRuns == 2        \* runs of import_zones in one behaviour

ZoneFeedElements ==
    {Node(101, TRUE, 0), Node(101, TRUE, 8), Node(101, FALSE, 0),
     Node(102, TRUE, 8)}
ZoneFeedFiles == SeqsUpTo(ZoneFeedElements, MaxFileLen)

\* python import_zones.py: main() opens a session and awaits import_zones
import_zones_run(file, zone_type) ==
    LET table == IF zone_type = "school" THEN schools ELSE hospitals
        r == import_zones(ZoneSession(file, table), table, nextId)
    IN  /\ run.n < MaxRuns
        /\ schools' = IF zone_type = "school" THEN r.table ELSE schools
        /\ hospitals' = IF zone_type = "school" THEN hospitals ELSE r.table
        /\ nextId' = r.nid
        /\ run' = Run("run", "import_zones", zone_type, file, r.s)
                   @@ [n |-> run.n + 1,
                       duplicate_count |-> r.s.duplicate_count]
        /\ UNCHANGED <<cameras, limits, hazards, roads, reports, now, resp,
                       sess>>

InitZones ==
    /\ cameras = <<>> /\ limits = <<>> /\ hazards = <<>> /\ roads = <<>>
    /\ schools = <<>> /\ hospitals = <<>> /\ reports = <<>>
    /\ nextId = 1
    /\ now = 0
    /\ resp = NoResponse
    /\ sess = NoSession
    /\ run = [phase |-> "none", kind |-> "none", zone_type |-> "",
              file |-> <<>>, imported_count |-> 0, skipped_count |-> 0,
              n |-> 0, duplicate_count |-> 0]

NextZones ==
    \E file \in ZoneFeedFiles, zone_type \in ZoneTypes :
        import_zones_run(file, zone_type)

SpecZones == InitZones /\ [][NextZones]_vars

StoredUnchanged(old, new) ==
    /\ Len(new) >= Len(old)
    /\ \A i \in DOMAIN old : new[i] = old[i]

\* C12: after any sequence of import_zones runs there is at most one school
\* zone and at most one hospital zone per osm_id, and no run modifies a
\* zone that was stored before it.
C12_OneZonePerOsmId ==
    [][/\ unique_osm_id(schools') /\ unique_osm_id(hospitals')
       /\ StoredUnchanged(schools, schools')
       /\ StoredUnchanged(hospitals, hospitals')]_vars

\* a second run whose file carries the stored id 101 at another position
\* and a new id: the stored zone is as the first run left it
C12_Witness ==
    /\ run.n = 2
    /\ run.zone_type = "school"
    /\ run.file = <<Node(101, TRUE, 8), Node(102, TRUE, 8)>>
    /\ run.duplicate_count = 1
    /\ Len(schools) = 2
    /\ schools[1].osm_id = "101" /\ schools[1].pos = 0
    /\ schools[2].osm_id = "102"

(***************************************************************************)
(* main.py: the nearby endpoints with their radius validation, and the     *)
(* combined navigation request.  One request is answered at a time.        *)
(***************************************************************************)
RadiusCeiling == 5000
NavigationRadiusCeiling == 100000
ZoneDefaultLimit == 20

\* GET /api/speed-limits/nearby
get_speed_limits_nearby(point, radius_meters, min_confidence, verified_only) ==
    /\ resp' = IF valid_radius(radius_meters, RadiusCeiling)
               THEN QueryResponse("get_speed_limits_nearby",
                        Request(point, radius_meters, min_confidence,
                                verified_only, DefaultLimit, now),
                        get_nearby_speed_limits(limits, point, radius_meters,
                            min_confidence, verified_only, DefaultLimit))
               ELSE Response("get_speed_limits_nearby", 422, 0, <<>>)
    /\ UNCHANGED <<tables, nextId, now, sess, run>>

\* GET /api/hazards/roads/nearby
get_hazardous_roads_nearby(point, radius_meters) ==
    /\ resp' = IF valid_radius(radius_meters, RadiusCeiling)
               THEN QueryResponse("get_hazardous_roads_nearby",
                        Request(point, radius_meters, 0, FALSE, DefaultLimit,
                                now),
                        get_nearby_hazardous_roads(roads, point,
                            radius_meters, 0, DefaultLimit))
               ELSE Response("get_hazardous_roads_nearby", 422, 0, <<>>)
    /\ UNCHANGED <<tables, nextId, now, sess, run>>

\* GET /api/zones/schools/nearby
get_schools_nearby(point, radius_meters) ==
    /\ resp' = IF valid_radius(radius_meters, RadiusCeiling)
               THEN QueryResponse("get_schools_nearby",
                        Request(point, radius_meters, 0, FALSE,
                                ZoneDefaultLimit, now),
                        get_nearby_school_zones(schools, point,
                            radius_meters, ZoneDefaultLimit))
               ELSE Response("get_schools_nearby", 422, 0, <<>>)
    /\ UNCHANGED <<tables, nextId, now, sess, run>>

\* GET /api/zones/hospitals/nearby
get_hospitals_nearby(point, radius_meters) ==
    /\ resp' = IF valid_radius(radius_meters, RadiusCeiling)
               THEN QueryResponse("get_hospitals_nearby",
                        Request(point, radius_meters, 0, FALSE,
                                ZoneDefaultLimit, now),
                        get_nearby_hospital_zones(hospitals, point,
                            radius_meters, ZoneDefaultLimit))
               ELSE Response("get_hospitals_nearby", 422, 0, <<>>)
    /\ UNCHANGED <<tables, nextId, now, sess, run>>

Categories == {"cameras", "speed_limits", "hazards", "hazardous_roads"}

\* the steps of the try block, in order
NavSteps == <<"cameras", "speed_limits", "hazards", "hazardous_roads", "format">>

\* the categories whose query has returned when step fails_at raises
completed_before(fails_at) ==
    CASE fails_at = "cameras" -> {}
      [] fails_at = "speed_limits" -> {"cameras"}
      [] fails_at = "hazards" -> {"cameras", "speed_limits"}
      [] fails_at = "hazardous_roads" -> {"cameras", "speed_limits", "hazards"}
      [] OTHER -> Categories

\* a fan-out that asks for every hazard, active or not
navigation_queries_all_hazards(point, radius_meters, at) ==
    [cameras |-> get_nearby_speed_cameras(cameras, point, radius_meters, 0,
                                          FALSE, DefaultLimit),
     speed_limits |-> get_nearby_speed_limits(limits, point, radius_meters,
                                              0, FALSE, DefaultLimit),
     hazards |-> get_nearby_hazards(hazards, point, radius_meters, 0, FALSE,
                                    DefaultLimit, at),
     hazardous_roads |-> get_nearby_hazardous_roads(roads, point,
                                                    radius_meters, 0,
                                                    DefaultLimit)]

\* the four queries of the handler: same centre, same radius,
\* min_confidence 0, active_only for the hazards, each with its default limit
navigation_queries(point, radius_meters, at) ==
    [cameras |-> get_nearby_speed_cameras(cameras, point, radius_meters, 0,
                                          FALSE, DefaultLimit),
     speed_limits |-> get_nearby_speed_limits(limits, point, radius_meters,
                                              0, FALSE, DefaultLimit),
     hazards |-> get_nearby_hazards(hazards, point, radius_meters, 0, TRUE,
                                    DefaultLimit, at),
     hazardous_roads |-> get_nearby_hazardous_roads(roads, point,
                                                    radius_meters, 0,
                                                    DefaultLimit)]

\* the JSON body: the categories it carries, their lists and their counts
NavigationBody(status, req, data, present, detail) ==
    [op |-> "get_navigation_data_nearby", status |-> status, id |-> 0,
     rows |-> <<>>, req |-> req, present |-> present,
     data |-> [c \in present |-> data[c]],
     counts |-> [c \in present |-> Len(data[c])],
     detail |-> detail]

\* a handler that answers with what it has when a step raises
partial_response(req, data, fails_at) ==
    NavigationBody(200, req, data, completed_before(fails_at), fails_at)

\* except Exception as e: raise HTTPException(status_code=500, ...)
navigation_error(req, data, fails_at) ==
    NavigationBody(500, req, data, {}, fails_at)

\* GET /api/navigation/nearby; fails_at names the step that raises, if any
get_navigation_data_nearby(point, radius_meters, fails_at) ==
    LET req == Request(point, radius_meters, 0, TRUE, DefaultLimit, now)
        data == navigation_queries(point, radius_meters, now)
    IN  /\ resp' = IF ~valid_radius(radius_meters, NavigationRadiusCeiling)
                   THEN NavigationBody(422, req, data, {}, "none")
                   ELSE IF fails_at # "none"
                   THEN navigation_error(req, data, fails_at)
                   ELSE NavigationBody(200, req, data, Categories, "none")
        /\ UNCHANGED <<tables, nextId, now, sess, run>>

RadiusInputs == {0, 25, 5000, 5001, 100000, 100001}

\* more hazards at one point than a query returns
Crowd ==
    with_ids([i \in 1..(DefaultLimit + 1) |->
                 HazardDetection(0, 8, 900, "u1", NoTime, TRUE)])

NavCameras ==
    with_ids(<<SpeedCamera(0, 8, 60, "fixed", NoDirection, ImportCameraConfidence, TRUE, 1, NoUser),
               SpeedCamera(0, 30, 60, "fixed", NoDirection, UserCameraConfidence, FALSE, 0, "u2")>>)
NavLimits ==
    with_ids(<<RoadSpeedLimit(0, <<0, 8>>, 40, ImportLimitConfidence, TRUE, 1),
               RoadSpeedLimit(0, <<30, 40>>, 60, ImportLimitConfidence, TRUE, 1)>>)
NavHazards ==
    with_ids(<<HazardDetection(0, 8, 900, "u1", NoTime, TRUE),
               HazardDetection(0, 8, 900, "u1", 1, TRUE),
               HazardDetection(0, 12, 200, "u2", NoTime, FALSE)>>)
NavRoads ==
    with_ids(<<HazardousRoadSegment(0, <<8, 12>>, 900, NoUser)>>)
NavSchools == with_ids(<<Zone(0, 8, "101")>>)
NavHospitals == with_ids(<<Zone(0, 12, "102")>>)

InitNav ==
    /\ \/ /\ cameras \in {<<>>, NavCameras}
          /\ limits \in {<<>>, NavLimits}
          /\ hazards \in {<<>>, NavHazards}
          /\ roads \in {<<>>, NavRoads}
       \/ /\ cameras = NavCameras
          /\ limits = <<>>
          /\ hazards = Crowd
          /\ roads = <<>>
    /\ schools \in {<<>>, NavSchools}
    /\ hospitals \in {<<>>, NavHospitals}
    /\ reports = <<>>
    /\ nextId = DefaultLimit + 2
    /\ now = 0
    /\ resp = NoResponse
    /\ sess = NoSession
    /\ run = NoRun

NextNav ==
    \/ \E point \in QueryPoints, radius \in RadiusInputs :
          /\ resp = NoResponse
          /\ get_cameras_nearby(point, radius, 0, FALSE, DefaultLimit)
    \/ \E point \in QueryPoints, radius \in RadiusInputs :
          /\ resp = NoResponse
          /\ get_speed_limits_nearby(point, radius, 0, FALSE)
    \/ \E point \in QueryPoints, radius \in RadiusInputs :
          /\ resp = NoResponse
          /\ get_hazardous_roads_nearby(point, radius)
    \/ \E point \in QueryPoints, radius \in RadiusInputs :
          /\ resp = NoResponse
          /\ get_schools_nearby(point, radius)
    \/ \E point \in QueryPoints, radius \in RadiusInputs :
          /\ resp = NoResponse
          /\ get_hospitals_nearby(point, radius)
    \/ \E point \in QueryPoints, radius \in RadiusInputs,
          fails_at \in Range(NavSteps) \cup {"none"} :
          /\ resp = NoResponse
          /\ get_navigation_data_nearby(point, radius, fails_at)
    \/ reply
    \/ tick

SpecNav == InitNav /\ [][NextNav]_vars

\* a request with this radius runs its query exactly when the radius is
\* within (0, ceiling]; otherwise it is answered with a validation error
RadiusRule(radius_meters, ceiling) ==
    IF radius_meters > 0 /\ radius_meters <= ceiling
    THEN resp'.status # 422
    ELSE resp'.status = 422

\* C16: a nearby query runs only with a radius > 0 and at most the ceiling
\* of its entity type (100 km for cameras, 5 km for speed limits, hazardous
\* road segments and school/hospital zones); this holds for the queries of
\* the combined navigation request too, which asks for speed limits and
\* hazardous roads; a radius above the ceiling is answered with a
\* validation error.
C16_RadiusWithinCeiling ==
    [][\A point \in QueryPoints, radius \in RadiusInputs :
          /\ get_cameras_nearby(point, radius, 0, FALSE, DefaultLimit)
                => RadiusRule(radius, 100000)
          /\ get_speed_limits_nearby(point, radius, 0, FALSE)
                => RadiusRule(radius, 5000)
          /\ get_hazardous_roads_nearby(point, radius)
                => RadiusRule(radius, 5000)
          /\ get_schools_nearby(point, radius) => RadiusRule(radius, 5000)
          /\ get_hospitals_nearby(point, radius) => RadiusRule(radius, 5000)
          /\ get_navigation_data_nearby(point, radius, "none")
                => RadiusRule(radius, 5000)]_vars

NavigationAnswer == resp.op = "get_navigation_data_nearby"

\* C17: the answer to a combined navigation request either carries all
\* four categories, when no step failed, or is an error that carries none.
C17_AllOrNothing ==
    NavigationAnswer =>
        \/ /\ resp.status = 200
           /\ resp.present = Categories
           /\ resp.detail = "none"
        \/ /\ resp.status # 200
           /\ resp.present = {}

\* the hazards query failed after the camera query had found a camera: the
\* answer is an error without any category
C17_Witness ==
    /\ NavigationAnswer
    /\ resp.status = 500
    /\ resp.detail = "hazards"
    /\ \E i \in DOMAIN cameras :
          DistanceTo(cameras[i], resp.req.point) <= resp.req.radius_meters

Qualifies(c, row) ==
    /\ DistanceTo(row, resp.req.point) <= resp.req.radius_meters
    /\ c = "hazards" => row.is_active /\ ~Expired(row, resp.req.at)

StoreOf(c) ==
    CASE c = "cameras" -> cameras
      [] c = "speed_limits" -> limits
      [] c = "hazards" -> hazards
      [] c = "hazardous_roads" -> roads

Listed(c, row) == \E k \in DOMAIN resp.data[c] : resp.data[c][k] = row

\* every list holds stored entities of its own category that lie within
\* the request's radius of its centre (active and unexpired, for hazards),
\* and every count is the length of its list
ListsSound ==
    \A c \in Categories :
        /\ \A k \in DOMAIN resp.data[c] :
              /\ \E i \in DOMAIN StoreOf(c) : StoreOf(c)[i] = resp.data[c][k]
              /\ Qualifies(c, resp.data[c][k])
        /\ resp.counts[c] = Len(resp.data[c])

\* C18, as claimed: the four lists are taken around the same centre with
\* the same radius, the hazards returned are exactly the hazards that pass
\* the active filter, every count equals the length of its list, and every
\* entity within the radius is listed in its category whatever the other
\* categories hold.
C18_ExactlyTheQualifying ==
    (NavigationAnswer /\ resp.status = 200) =>
        /\ ListsSound
        /\ \A c \in Categories : \A i \in DOMAIN StoreOf(c) :
              Qualifies(c, StoreOf(c)[i]) => Listed(c, StoreOf(c)[i])

NumberQualifying(c) ==
    Cardinality({i \in DOMAIN StoreOf(c) : Qualifies(c, StoreOf(c)[i])})

\* C18, amended: as above, except that a category with more than 50
\* qualifying entities lists 50 of them, none farther away than one it
\* leaves out.
C18_QualifyingUpToLimit ==
    (NavigationAnswer /\ resp.status = 200) =>
        /\ ListsSound
        /\ \A c \in Categories :
              /\ Len(resp.data[c]) = Min(NumberQualifying(c), resp.req.limit)
              /\ \A i \in DOMAIN StoreOf(c) :
                    (Qualifies(c, StoreOf(c)[i]) /\ ~Listed(c, StoreOf(c)[i]))
                    => \A k \in DOMAIN resp.data[c] :
                          DistanceTo(resp.data[c][k], resp.req.point)
                          <= DistanceTo(StoreOf(c)[i], resp.req.point)

\* an answer that lists the active hazard and the camera stored at the same
\* point, and leaves out the expired and the inactive hazard within the
\* radius
C18_Witness ==
    /\ NavigationAnswer /\ resp.status = 200
    /\ resp.req.at = 1
    /\ resp.counts["hazards"] = 1
    /\ resp.data["hazards"][1].pos = 8
    /\ resp.counts["cameras"] >= 1
    /\ resp.data["cameras"][1].pos = 8
    /\ \E i \in DOMAIN hazards :
          /\ Expired(hazards[i], resp.req.at)
          /\ DistanceTo(hazards[i], resp.req.point) <= resp.req.radius_meters
    /\ \E i \in DOMAIN hazards :
          /\ ~hazards[i].is_active
          /\ DistanceTo(hazards[i], resp.req.point) <= resp.req.radius_meters

(***************************************************************************)
(* One camera import against a backend where the INSERTs of a batch        *)
(* commit may fail.                                                        *)
(***************************************************************************)
FaultRecords == {CameraRecord(p, TRUE) : p \in Positions}
FaultFiles == SeqsUpTo(FaultRecords, MaxFileLen + 1)

NextFault ==
    \/ \E file \in FaultFiles : start_import(1, file)
    \/ import_camera_record(1)
    \/ import_batch_commit(1)
    \/ import_batch_commit_fails(1)
    \/ import_final_commit(1)

SpecFault == InitImport /\ [][NextFault]_vars

Finished(w) ==
    sess[w].op = "import_speed_cameras" /\ sess[w].pc \in {"done", "raised"}

\* C19: an import in which persisting a record failed still returns
\* normally, and every valid record that follows the failing one in the
\* file is persisted (a camera is stored at its position).
C19_LaterRecordsPersisted ==
    \A w \in Workers :
        (Finished(w) /\ sess[w].failed_at # 0) =>
            /\ sess[w].pc = "done"
            /\ \A k \in (sess[w].failed_at + 1)..Len(sess[w].file) :
                  sess[w].file[k].in_range
                  => existing_camera(cameras, sess[w].file[k].pos)

\* C20: when persisting a record fails, the record is kept for another
\* attempt: the failure does not at once count it as skipped, drop it from
\* the session or end the import.
C20_FailureIsRetried ==
    [][\A w \in Workers :
          (sess[w].failed_at = 0 /\ sess'[w].failed_at # 0)
          => /\ sess'[w].skipped_count = sess[w].skipped_count
             /\ sess'[w].pending = sess[w].pending
             /\ sess'[w].pc \notin {"done", "raised"}]_vars

(***************************************************************************)
(* Verification flags.                                                     *)
(***************************************************************************)
VerifiedRows ==
    SelectSeq(cameras, LAMBDA r : r.verified)
    \o SelectSeq(limits, LAMBDA r : r.verified)
    \o SelectSeq(hazards, LAMBDA r : r.verified)

\* C11: in every reachable state every stored camera, road speed limit and
\* hazard with verified = true has verification_count >= 1.
C11_VerifiedHasCount ==
    \A i \in DOMAIN VerifiedRows : VerifiedRows[i].vcount >= 1

\* an imported camera (verified, counted once) stored next to a camera a
\* user created (unverified, count 0)
C11_Witness ==
    /\ \E i \in DOMAIN cameras :
          cameras[i].verified /\ cameras[i].vcount = 1
    /\ \E i \in DOMAIN cameras :
          ~cameras[i].verified /\ cameras[i].vcount = 0

(***************************************************************************)
(* ORDER BY on the distance column alone: rows at equal distance.          *)
(***************************************************************************)
\* .order_by(distance_col) names no second sort key.  PostgreSQL leaves the
\* order of rows with equal keys to the executor (the order of the scan,
\* the sort method): each ordering by non-decreasing distance is an outcome
\* of the statement, and order_by above is the one of them a stable sort
\* over an insertion-ordered scan yields.
order_by_outcomes(s) ==
    {[k \in DOMAIN s |-> s[q[k]]] :
        q \in {p \in [DOMAIN s -> DOMAIN s] :
                 /\ \A k, l \in DOMAIN s : k # l => p[k] # p[l]
                 /\ \A k, l \in DOMAIN s :
                       k < l => s[p[k]].distance <= s[p[l]].distance}}

\* the results get_nearby_speed_cameras can return
get_nearby_speed_cameras_outcomes(table, point, radius_meters, min_confidence, verified_only, limit) ==
    LET Keep(c) == camera_where(c, point, radius_meters, min_confidence,
                                verified_only)
        hit == SelectSeq(table, Keep)
        withDistance == [i \in DOMAIN hit |->
            [row |-> hit[i], distance |-> ST_Distance(hit[i].pos, point)]]
    IN  {first_column(limit_rows(sorted, limit)) :
            sorted \in order_by_outcomes(withDistance)}

\* the results get_nearby_school_zones can return
get_nearby_school_zones_outcomes(table, point, radius_meters, limit) ==
    LET Keep(z) == ST_DWithin(z.pos, point, radius_meters)
        hit == SelectSeq(table, Keep)
        withDistance == [i \in DOMAIN hit |->
            [row |-> hit[i], distance |-> ST_Distance(hit[i].pos, point)]]
    IN  {first_column(limit_rows(sorted, limit)) :
            sorted \in order_by_outcomes(withDistance)}

execute_cameras_nearby(point, radius, min_confidence, verified_only, limit) ==
    /\ resp = NoResponse
    /\ \E rows \in get_nearby_speed_cameras_outcomes(cameras, point, radius,
                       min_confidence, verified_only, limit) :
          resp' = QueryResponse("get_nearby_speed_cameras",
              Request(point, radius, min_confidence, verified_only, limit,
                      now), rows)
    /\ UNCHANGED <<tables, nextId, now, sess, run>>

execute_schools_nearby(point, radius, limit) ==
    /\ resp = NoResponse
    /\ \E rows \in get_nearby_school_zones_outcomes(schools, point, radius,
                       limit) :
          resp' = QueryResponse("get_nearby_school_zones",
              Request(point, radius, 0, FALSE, limit, now), rows)
    /\ UNCHANGED <<tables, nextId, now, sess, run>>

NextTies ==
    \/ \E point \in QueryPoints, radius \in Radii, m \in MinConfidences,
          verified_only \in BOOLEAN, limit \in Limits :
          execute_cameras_nearby(point, radius, m, verified_only, limit)
    \/ \E point \in QueryPoints, radius \in Radii, limit \in Limits :
          execute_schools_nearby(point, radius, limit)
    \/ reply

SpecTies == InitQuery /\ [][NextTies]_vars

\* C21: the entities a nearby query returns at equal distance from the
\* query point come in insertion order (ids are handed out in insertion
\* order), so that the query has one possible answer on a given store.
C21_TiesInInsertionOrder ==
    resp.op \in {"get_nearby_speed_cameras", "get_nearby_school_zones"} =>
        \A k \in DOMAIN resp.rows : \A l \in DOMAIN resp.rows :
            (/\ k < l
             /\ DistanceTo(resp.rows[k], resp.req.point)
                  = DistanceTo(resp.rows[l], resp.req.point))
            => resp.rows[k].id < resp.rows[l].id

(***************************************************************************)
(* Where a stored row comes from: the import scripts and the create-camera *)
(* request, run against one store.                                         *)
(***************************************************************************)
OriginCameraFiles ==
    {<<CameraRecord(0, TRUE)>>,
     <<CameraRecord(8, TRUE), CameraRecord(0, FALSE), CameraRecord(30, TRUE)>>}
OriginLimitFiles ==
    {<<Way(<<0, 8>>, <<"4", "0">>)>>,
     <<Way(<<8, 30>>, <<"6", "0">>), Way(<<0, 8>>, <<"4", "0">>)>>}

NextOrigin ==
    \/ \E u \in Users, pos \in Positions :
          nextId <= MaxCreated /\ create_camera(u, pos)
    \/ \E file \in OriginCameraFiles : run_import_speed_cameras(file)
    \/ \E file \in OriginLimitFiles : run_import_speed_limits(file)

SpecOrigin == InitConf /\ [][NextOrigin]_vars

\* the rows of new that old does not hold
Added(old, new) ==
    SelectSeq(new, LAMBDA r : \A i \in DOMAIN old : old[i].id # r.id)

ImportPreset(row, confidence) ==
    /\ row.conf = Numeric_3_2(confidence)
    /\ row.verified
    /\ row.vcount = 1

\* C22: every camera a run of import_speed_cameras stores has confidence
\* 0.80, verified = true and verification_count = 1; every road speed limit
\* a run of import_speed_limits stores has its preset confidence (0.85),
\* verified = true and verification_count = 1; the camera a create-camera
\* request of user u stores has confidence 0.50, verified = false and
\* reported_by = u.
C22_PresetsByOrigin ==
    [][/\ (run' # run /\ run'.kind = "import_speed_cameras")
            => \A i \in DOMAIN Added(cameras, cameras') :
                  ImportPreset(Added(cameras, cameras')[i],
                               ImportCameraConfidence)
       /\ (run' # run /\ run'.kind = "import_speed_limits")
            => \A i \in DOMAIN Added(limits, limits') :
                  ImportPreset(Added(limits, limits')[i],
                               ImportLimitConfidence)
       /\ \A u \in Users, pos \in Positions :
            create_camera(u, pos)
            => \A i \in DOMAIN Added(cameras, cameras') :
                  /\ Added(cameras, cameras')[i].conf
                       = Numeric_3_2(UserCameraConfidence)
                  /\ ~Added(cameras, cameras')[i].verified
                  /\ Added(cameras, cameras')[i].by = u]_vars

\* an import has stored a camera next to one that user u2 submitted
C22_Witness ==
    /\ run.kind = "import_speed_cameras"
    /\ \E i \in DOMAIN cameras :
          cameras[i].by = NoUser /\ cameras[i].conf = 80
    /\ \E i \in DOMAIN cameras :
          cameras[i].by = "u2" /\ cameras[i].conf = 50

(***************************************************************************)
(* Reports.                                                                *)
(***************************************************************************)
\* C23: a report request answered 201 adds exactly one report record, also
\* when a report of the same user, location, type and reason is stored
\* already, and leaves every stored report, camera, road speed limit,
\* hazard, road segment and zone as it was.
C23_ReportAppendsOne ==
    [][(resp' # resp /\ resp'.op = "report_hazard" /\ resp'.status = 201)
       => /\ Len(reports') = Len(reports) + 1
          /\ \A i \in DOMAIN reports : reports'[i] = reports[i]
          /\ reports'[Len(reports')].id = resp'.id
          /\ \A i \in DOMAIN reports : reports[i].id # resp'.id
          /\ UNCHANGED <<cameras, limits, hazards, roads, schools,
                         hospitals>>]_vars

\* the same report stored twice, next to a camera
C23_Witness ==
    /\ resp.op = "report_hazard"
    /\ cameras # <<>>
    /\ \E i, j \in DOMAIN reports :
          /\ i < j
          /\ reports[j] = [reports[i] EXCEPT !.id = reports[j].id]

(***************************************************************************)
(* database.py get_db around the read handlers: the handler runs in the    *)
(* request's session and session.commit() follows it.                      *)
(***************************************************************************)
\* the objects a handler has loaded, as they are when it returns, if the
\* handler were to confirm each of them
confirmed_on_read(rows) ==
    [i \in DOMAIN rows |->
        IF "verified" \in DOMAIN rows[i]
        THEN [rows[i] EXCEPT !.verified = TRUE] ELSE rows[i]]

\* the objects a read handler has loaded, as they are when it returns: the
\* handlers copy columns into dicts and assign no attribute
after_read(rows) == rows

\* session.commit(): an UPDATE for every loaded object, with the attribute
\* values it has now; a read handler adds and deletes no object
session_commit(table, loaded) ==
    [i \in DOMAIN table |->
        IF \E j \in DOMAIN loaded : loaded[j].id = table[i].id
        THEN loaded[CHOOSE j \in DOMAIN loaded : loaded[j].id = table[i].id]
        ELSE table[i]]

NoneLoaded ==
    [cameras |-> <<>>, limits |-> <<>>, hazards |-> <<>>, roads |-> <<>>,
     schools |-> <<>>, hospitals |-> <<>>]

\* one read request: the answer of the handler, then the commit of get_db
read_request(answer, loaded) ==
    /\ resp = NoResponse
    /\ resp' = answer
    /\ cameras' = session_commit(cameras, after_read(loaded.cameras))
    /\ limits' = session_commit(limits, after_read(loaded.limits))
    /\ hazards' = session_commit(hazards, after_read(loaded.hazards))
    /\ roads' = session_commit(roads, after_read(loaded.roads))
    /\ schools' = session_commit(schools, after_read(loaded.schools))
    /\ hospitals' = session_commit(hospitals, after_read(loaded.hospitals))
    /\ UNCHANGED <<reports, nextId, now, sess, run>>

CountResponse(op, count) ==
    [op |-> op, status |-> 200, id |-> 0, rows |-> <<>>, req |-> NoRequest,
     count |-> count]

read_cameras_nearby(point, radius, min_confidence, verified_only, limit) ==
    LET rows == get_nearby_speed_cameras(cameras, point, radius,
                    min_confidence, verified_only, limit)
    IN  read_request(QueryResponse("get_nearby_speed_cameras",
            Request(point, radius, min_confidence, verified_only, limit,
                    now), rows),
            [NoneLoaded EXCEPT !.cameras = rows])

read_limits_nearby(point, radius, min_confidence, verified_only, limit) ==
    LET rows == get_nearby_speed_limits(limits, point, radius,
                    min_confidence, verified_only, limit)
    IN  read_request(QueryResponse("get_nearby_speed_limits",
            Request(point, radius, min_confidence, verified_only, limit,
                    now), rows),
            [NoneLoaded EXCEPT !.limits = rows])

read_hazards_nearby(point, radius, min_confidence, active_only, limit) ==
    LET rows == get_nearby_hazards(hazards, point, radius, min_confidence,
                    active_only, limit, now)
    IN  read_request(QueryResponse("get_nearby_hazards",
            Request(point, radius, min_confidence, active_only, limit, now),
            rows),
            [NoneLoaded EXCEPT !.hazards = rows])

read_roads_nearby(point, radius, min_confidence, limit) ==
    LET rows == get_nearby_hazardous_roads(roads, point, radius,
                    min_confidence, limit)
    IN  read_request(QueryResponse("get_nearby_hazardous_roads",
            Request(point, radius, min_confidence, FALSE, limit, now), rows),
            [NoneLoaded EXCEPT !.roads = rows])

read_schools_nearby(point, radius, limit) ==
    LET rows == get_nearby_school_zones(schools, point, radius, limit)
    IN  read_request(QueryResponse("get_nearby_school_zones",
            Request(point, radius, 0, FALSE, limit, now), rows),
            [NoneLoaded EXCEPT !.schools = rows])

read_hospitals_nearby(point, radius, limit) ==
    LET rows == get_nearby_hospital_zones(hospitals, point, radius, limit)
    IN  read_request(QueryResponse("get_nearby_hospital_zones",
            Request(point, radius, 0, FALSE, limit, now), rows),
            [NoneLoaded EXCEPT !.hospitals = rows])

read_cameras_along_route(route, buffer, min_confidence, verified_only) ==
    LET rows == get_speed_cameras_along_route(cameras, route, buffer,
                    min_confidence, verified_only)
    IN  read_request(QueryResponse("get_speed_cameras_along_route",
            Request(route, buffer, min_confidence, verified_only, 0, now),
            rows),
            [NoneLoaded EXCEPT !.cameras = rows])

read_limits_along_route(route, buffer, min_confidence, verified_only) ==
    LET rows == get_speed_limits_along_route(limits, route, buffer,
                    min_confidence, verified_only)
    IN  read_request(QueryResponse("get_speed_limits_along_route",
            Request(route, buffer, min_confidence, verified_only, 0, now),
            rows),
            [NoneLoaded EXCEPT !.limits = rows])

\* GET /api/cameras/count: select(func.count(SpeedCamera.id))
get_cameras_count ==
    read_request(CountResponse("get_cameras_count", Len(cameras)),
                 NoneLoaded)

\* GET /api/speed-limits/count
get_speed_limits_count ==
    read_request(CountResponse("get_speed_limits_count", Len(limits)),
                 NoneLoaded)

\* GET /api/navigation/nearby, answered 200
read_navigation_nearby(point, radius) ==
    LET data == navigation_queries(point, radius, now)
    IN  read_request(
            NavigationBody(200,
                Request(point, radius, 0, TRUE, DefaultLimit, now), data,
                Categories, "none"),
            [NoneLoaded EXCEPT !.cameras = data.cameras,
                               !.limits = data.speed_limits,
                               !.hazards = data.hazards,
                               !.roads = data.hazardous_roads])

InitRead ==
    /\ cameras \in {<<>>, NavCameras}
    /\ limits \in {<<>>, NavLimits}
    /\ hazards \in {<<>>, NavHazards}
    /\ roads \in {<<>>, NavRoads}
    /\ schools \in {<<>>, NavSchools}
    /\ hospitals \in {<<>>, NavHospitals}
    /\ reports \in {<<>>, <<HazardReport(9, "u1", 8, "hazard", "pothole")>>}
    /\ nextId = 10
    /\ now = 0
    /\ resp = NoResponse
    /\ sess = NoSession
    /\ run = NoRun

NextRead ==
    \/ \E point \in QueryPoints, radius \in Radii, m \in MinConfidences,
          verified_only \in BOOLEAN, limit \in Limits :
          read_cameras_nearby(point, radius, m, verified_only, limit)
    \/ \E point \in QueryPoints, radius \in Radii, m \in MinConfidences,
          verified_only \in BOOLEAN, limit \in Limits :
          read_limits_nearby(point, radius, m, verified_only, limit)
    \/ \E point \in QueryPoints, radius \in Radii, m \in MinConfidences,
          active_only \in BOOLEAN, limit \in Limits :
          read_hazards_nearby(point, radius, m, active_only, limit)
    \/ \E point \in QueryPoints, radius \in Radii, m \in MinConfidences,
          limit \in Limits :
          read_roads_nearby(point, radius, m, limit)
    \/ \E point \in QueryPoints, radius \in Radii, limit \in Limits :
          read_schools_nearby(point, radius, limit)
    \/ \E point \in QueryPoints, radius \in Radii, limit \in Limits :
          read_hospitals_nearby(point, radius, limit)
    \/ \E route \in Routes, buffer \in Buffers, m \in MinConfidences,
          verified_only \in BOOLEAN :
          read_cameras_along_route(route, buffer, m, verified_only)
    \/ \E route \in Routes, buffer \in Buffers, m \in MinConfidences,
          verified_only \in BOOLEAN :
          read_limits_along_route(route, buffer, m, verified_only)
    \/ get_cameras_count
    \/ get_speed_limits_count
    \/ \E point \in QueryPoints, radius \in Radii :
          read_navigation_nearby(point, radius)
    \/ reply
    \/ tick

SpecRead == InitRead /\ [][NextRead]_vars

\* C24: a nearby query, an along-route query, a count request or the
\* combined navigation request, together with the session commit that
\* follows it, leaves every stored entity and each of its fields as it was.
C24_ReadsArePure ==
    [][(resp' # resp /\ resp' # NoResponse)
       => UNCHANGED <<cameras, limits, hazards, roads, schools, hospitals,
                      reports>>]_vars

\* the navigation request has listed an unverified camera of a populated
\* store
C24_Witness ==
    /\ resp.op = "get_navigation_data_nearby"
    /\ \E i \in DOMAIN resp.data.cameras : ~resp.data.cameras[i].verified
    /\ \E i \in DOMAIN cameras : ~cameras[i].verified
    /\ hazards # <<>> /\ reports # <<>>

(***************************************************************************)
(* Cameras of one file within the tolerance of each other.                 *)
(***************************************************************************)
NoTwoWithinTolerance(table) ==
    \A i, j \in DOMAIN table :
        i # j => ~ST_DWithin(table[i].pos, table[j].pos, DedupTolerance)

\* C25: a run of import_speed_cameras on a store in which no two cameras
\* are within 10 m of each other leaves a store in which no two cameras are
\* within 10 m of each other, also when two records of the file fall into
\* the same batch.
C25_ImportKeepsCamerasApart ==
    [][(/\ run' # run
        /\ run'.kind = "import_speed_cameras"
        /\ NoTwoWithinTolerance(cameras))
       => NoTwoWithinTolerance(cameras')]_vars

(***************************************************************************)
(* The create requests and their transaction: create function (db.add,     *)
(* db.flush), db.commit() in the handler, db.rollback() in its except      *)
(* clause and in get_db.                                                    *)
(***************************************************************************)
CreateOps ==
    {"create_camera", "create_hazard", "detect_and_save_hazard",
     "report_hazard"}

\* where the request raises: in the handler before the create function, in
\* the flush, in the commit, or nowhere
RaisesAt == {"handler", "flush", "commit", "none"}

\* the INSERT of db.flush() is rejected by a check constraint
rejected(row) == "conf" \in DOMAIN row /\ ~confidence_check(row)

\* the rows the request has inserted in its open transaction when it
\* reaches the commit or the except clause
flushed_rows(row, raises_at) ==
    IF raises_at \in {"handler", "flush"} \/ rejected(row)
    THEN <<>> ELSE <<row>>

\* an except clause that keeps what the transaction has inserted
db_rollback_keeps_flushed(table, transaction) == table \o transaction

\* await db.rollback(): the rows of the open transaction are discarded
db_rollback(table, transaction) == table

\* await db.commit()
db_commit(table, transaction) == table \o transaction

CreateResponse(op, status, id, raised_at) ==
    [op |-> op, status |-> status, id |-> id, rows |-> <<>>,
     req |-> NoRequest, raised_at |-> raised_at]

create_request(op, u, pos, confidence_score, raises_at) ==
    LET row == IF op = "create_camera"
               THEN create_speed_camera(nextId, pos, 60, "fixed",
                        NoDirection, UserCameraConfidence, u)
               ELSE IF op = "report_hazard"
               THEN create_hazard_report(nextId, u, pos, "hazard", "pothole")
               ELSE create_hazard_detection(nextId, pos, confidence_score,
                                            u, NoTime)
        transaction == flushed_rows(row, raises_at)
        raised == raises_at # "none" \/ rejected(row)
        written(table) == IF raised THEN db_rollback(table, transaction)
                          ELSE db_commit(table, transaction)
    IN  /\ nextId <= MaxCreated
        /\ cameras' = IF op = "create_camera" THEN written(cameras)
                      ELSE cameras
        /\ hazards' = IF op \in {"create_hazard", "detect_and_save_hazard"}
                      THEN written(hazards) ELSE hazards
        /\ reports' = IF op = "report_hazard" THEN written(reports)
                      ELSE reports
        /\ nextId' = IF raised THEN nextId ELSE nextId + 1
        /\ resp' = IF raised
                   THEN CreateResponse(op, 500, 0,
                            IF raises_at = "none" THEN "flush"
                            ELSE raises_at)
                   ELSE CreateResponse(op,
                            IF op = "detect_and_save_hazard" THEN 200
                            ELSE 201, row.id, "none")
        /\ UNCHANGED <<limits, roads, schools, hospitals, now, sess, run>>

NextRollback ==
    \/ \E op \in CreateOps, u \in Users, pos \in ImportPositions,
          c \in {500, 1100}, raises_at \in RaisesAt :
          create_request(op, u, pos, c, raises_at)
    \/ reply

SpecRollback == Init /\ [][NextRollback]_vars

\* C26: a create request (camera, hazard, detect-and-save hazard, report)
\* that raises before its commit has completed is answered with an error
\* and leaves the stored entities exactly as they were.
C26_FailedCreateStoresNothing ==
    [][(resp' # resp /\ resp'.status = 500)
       => UNCHANGED <<cameras, limits, hazards, roads, schools, hospitals,
                      reports>>]_vars

\* a create request has raised in its commit, after an earlier request
\* stored an entity
C26_Witness ==
    /\ resp.status = 500
    /\ resp.raised_at = "commit"
    /\ Len(cameras) + Len(hazards) + Len(reports) >= 1

(***************************************************************************)
(* import_speed_limits and import_zones, one element of the file at a      *)
(* time, with a batch commit that can fail.  Neither loop queries the      *)
(* database: after a failed commit the except clause counts one skipped    *)
(* element without db.rollback(), the loop goes on adding to the session,  *)
(* and every later commit raises until a rollback that never comes.        *)
(***************************************************************************)
ElementOps == {"import_speed_limits", "import_zones"}

\* files long enough for a third batch
BatchWays(n) == [i \in 1..n |-> Way(<<0, 8>>, <<"4", "0">>)]
BatchNodes(n) == [i \in 1..n |-> Node(200 + i, TRUE, 0)]
BatchFileLens == 1..(2 * BatchSize + 2)

ElementSession(op, file, table) ==
    IF op = "import_zones"
    THEN ZoneSession(file, table) @@ [failed_at |-> 0]
    ELSE Session("scan", op, file)

start_element_import(w, op, file) ==
    /\ sess[w].pc = "idle"
    /\ sess' = [sess EXCEPT ![w] = ElementSession(op, file, schools)]
    /\ UNCHANGED <<tables, nextId, now, resp, run>>

import_element_record(w) ==
    /\ sess[w].pc = "scan"
    /\ sess[w].op \in ElementOps
    /\ sess[w].idx < Len(sess[w].file)
    /\ sess' = [sess EXCEPT ![w] =
          IF sess[w].op = "import_zones" THEN zone_record(sess[w])
          ELSE limit_record(sess[w])]
    /\ UNCHANGED <<tables, nextId, now, resp, run>>

\* if imported_count % batch == 0: await db.commit()
element_batch_commit(w) ==
    /\ sess[w].pc = "commit"
    /\ sess[w].op \in ElementOps
    /\ sess[w].failed_at = 0
    /\ limits' = IF sess[w].op = "import_speed_limits"
                 THEN commit_rows(limits, sess[w].pending, nextId)
                 ELSE limits
    /\ schools' = IF sess[w].op = "import_zones"
                  THEN commit_rows(schools, sess[w].pending, nextId)
                  ELSE schools
    /\ nextId' = nextId + Len(sess[w].pending)
    /\ sess' = [sess EXCEPT ![w].pending = <<>>, ![w].pc = "scan"]
    /\ UNCHANGED <<cameras, hazards, roads, hospitals, reports, now, resp,
                   run>>

\* the commit raises: the first time its flush fails and the session
\* discards the rows of the batch; afterwards every commit raises at once
\* and the rows added since stay pending
element_batch_commit_fails(w) ==
    /\ sess[w].pc = "commit"
    /\ sess[w].op \in ElementOps
    /\ sess' = [sess EXCEPT
          ![w].pending = IF sess[w].failed_at = 0 THEN <<>> ELSE @,
          ![w].pc = "scan",
          ![w].skipped_count = @ + 1,
          ![w].failed_at = IF @ = 0 THEN sess[w].idx ELSE @]
    /\ UNCHANGED <<tables, nextId, now, resp, run>>

\* the final commit, outside the try block
element_final_commit(w) ==
    /\ sess[w].pc = "scan"
    /\ sess[w].op \in ElementOps
    /\ sess[w].idx = Len(sess[w].file)
    /\ IF sess[w].failed_at # 0
       THEN /\ sess' = [sess EXCEPT ![w].pc = "raised"]
            /\ UNCHANGED <<limits, schools, nextId>>
       ELSE /\ limits' = IF sess[w].op = "import_speed_limits"
                         THEN commit_rows(limits, sess[w].pending, nextId)
                         ELSE limits
            /\ schools' = IF sess[w].op = "import_zones"
                          THEN commit_rows(schools, sess[w].pending, nextId)
                          ELSE schools
            /\ nextId' = nextId + Len(sess[w].pending)
            /\ sess' = [sess EXCEPT ![w].pending = <<>>, ![w].pc = "done"]
    /\ UNCHANGED <<cameras, hazards, roads, hospitals, reports, now, resp,
                   run>>

NextBatch ==
    \/ \E n \in BatchFileLens :
          start_element_import(1, "import_speed_limits", BatchWays(n))
    \/ \E n \in BatchFileLens :
          start_element_import(1, "import_zones", BatchNodes(n))
    \/ import_element_record(1)
    \/ element_batch_commit(1)
    \/ element_batch_commit_fails(1)
    \/ element_final_commit(1)

SpecBatch == InitImport /\ [][NextBatch]_vars

\* C27: during a bulk import the records added to the session and not yet
\* committed never number more than the batch size, and none is left
\* uncommitted when the import has returned.
C27_PendingWithinBatch ==
    \A w \in Workers :
        sess[w].pc # "idle" =>
            /\ Len(sess[w].pending) <= BatchSize
            /\ sess[w].pc = "done" => sess[w].pending = <<>>

(***************************************************************************)
(* The counters of import_speed_cameras.                                   *)
(***************************************************************************)
\* the loop over the file has ended
LoopEnded(w) ==
    /\ sess[w].op = "import_speed_cameras"
    /\ sess[w].idx = Len(sess[w].file)
    /\ sess[w].pc \in {"scan", "done", "raised"}

\* C28: when import_speed_cameras has gone through its file, every record
\* has been counted once, as imported or as skipped (imported_count +
\* skipped_count is the number of records), and when it has returned the
\* imported count is the number of cameras the run has added to the store,
\* also in a run where a batch commit raised.
C28_EachRecordCountedOnce ==
    \A w \in Workers :
        LoopEnded(w) =>
            /\ sess[w].imported_count + sess[w].skipped_count
                 = Len(sess[w].file)
            /\ sess[w].pc = "done" => sess[w].imported_count = Len(cameras)

(***************************************************************************)
(* Delete requests against a store that holds imported cameras.            *)
(***************************************************************************)
NextOwner ==
    \/ \E file \in OriginCameraFiles : run_import_speed_cameras(file)
    \/ \E u \in Users, pos \in Positions :
          nextId <= MaxCreated /\ create_camera(u, pos)
    \/ \E u \in Users, id \in 0..MaxId : delete_camera(u, id)

SpecOwner == InitConf /\ [][NextOwner]_vars

\* C29: a delete-camera request of any user for a camera that a bulk
\* import stored (reported_by is null) is answered 403 Forbidden and the
\* camera stays stored, unchanged.
C29_ImportedCameraNotDeletable ==
    [][\A u \in Users, id \in 1..MaxId :
          LET i == IndexOfId(cameras, id)
          IN  (delete_camera(u, id) /\ i # 0 /\ cameras[i].by = NoUser)
              => /\ resp'.status = 403
                 /\ cameras' = cameras]_vars

\* a delete of an imported camera has been refused while a camera of a
\* user is stored as well
C29_Witness ==
    /\ resp.op = "delete_camera" /\ resp.status = 403
    /\ \E i \in DOMAIN cameras :
          /\ cameras[i].id = resp.id
          /\ cameras[i].by = NoUser
          /\ cameras[i].verified
    /\ \E i \in DOMAIN cameras : cameras[i].by \in Users

(***************************************************************************)
(* main.py increment_trips, concurrent requests.  Each request has its own *)
(* session: get_current_user loads the User row with a SELECT, the handler *)
(* adds one to the loaded trips_count in Python, and db.commit() writes it *)
(* back with UPDATE users SET trips_count = <that number>.  In this        *)
(* specification run holds the users table (trips_count per user) and the  *)
(* number of requests that have completed for each user.                   *)
(***************************************************************************)
MaxRequests == 4

RequestSession(pc, u, trips_count) ==
    [pc |-> pc, op |-> "increment_trips", user |-> u,
     trips_count |-> trips_count]

InitTrips ==
    /\ cameras = <<>> /\ limits = <<>> /\ hazards = <<>> /\ roads = <<>>
    /\ schools = <<>> /\ hospitals = <<>> /\ reports = <<>>
    /\ nextId = 1
    /\ now = 0
    /\ resp = NoResponse
    /\ sess = [w \in Workers |-> RequestSession("idle", NoUser, 0)]
    /\ run = [kind |-> "users",
              trips_count |-> [u \in Users |-> 0],
              started |-> 0,
              completed |-> [u \in Users |-> 0]]

\* Depends(get_current_user): select(User).where(User.id == user_id)
get_current_user(w, u) ==
    /\ sess[w].pc = "idle"
    /\ run.started < MaxRequests
    /\ sess' = [sess EXCEPT ![w] =
          RequestSession("loaded", u, run.trips_count[u])]
    /\ run' = [run EXCEPT !.started = @ + 1]
    /\ UNCHANGED <<tables, nextId, now, resp>>

\* current_user.trips_count = (current_user.trips_count or 0) + 1;
\* db.commit(); db.refresh(current_user); return UserResponse(...)
increment_trips(w) ==
    LET u == sess[w].user
        trips_count == sess[w].trips_count + 1
    IN  /\ sess[w].pc = "loaded"
        /\ run' = [run EXCEPT !.trips_count[u] = trips_count,
                              !.completed[u] = @ + 1]
        /\ sess' = [sess EXCEPT ![w] = RequestSession("idle", NoUser, 0)]
        /\ resp' = Response("increment_trips", 200, trips_count, <<>>)
        /\ UNCHANGED <<tables, nextId, now>>

NextTrips ==
    \/ \E w \in Workers, u \in Users : get_current_user(w, u)
    \/ \E w \in Workers : increment_trips(w)

SpecTrips == InitTrips /\ [][NextTrips]_vars

\* C30: when n increment-trips requests of a user have completed, in any
\* interleaving, and none is under way, the user's trips_count is n higher
\* than at the start (where it is 0).
C30_NoLostIncrement ==
    \A u \in Users :
        (\A w \in Workers : sess[w].user # u)
        => run.trips_count[u] = run.completed[u]

=============================================================================
